---- MODULE Spec2Model ----
(***************************************************************************)
(* Context-graph agent backend: the agent session wrapper                  *)
(* (backend/app/agent.py, ContextGraphAgent), the schema cache             *)
(* (backend/app/schema_service.py, SchemaService) and the six MCP tools    *)
(* (backend/app/agent.py) as state machines.                               *)
(*                                                                         *)
(* Python values are encoded as records so that values of different Python *)
(* types stay comparable: an optional value is [given |-> FALSE] or        *)
(* [given |-> TRUE, ...], a parsed tool output is [py |-> "None"],         *)
(* [py |-> "str", s |-> ...], [py |-> "dict"], ...                         *)
(***************************************************************************)
EXTENDS Integers, Sequences, FiniteSets, TLC

VARIABLES
    \* ---- ContextGraphAgent (agent.py 492-687) ----
    overrides,        \* the three constructor overrides (agent.py 502-504)
    options,          \* self.options, built by __init__ (agent.py 505-509)
    conversation,     \* the caller's conversation history, passed to every call
    client,           \* self.client: "None" or "client" (a ClaudeSDKClient object)
    cstate,           \* state of the object self.client refers to:
                      \* "none" | "connected" | "failed" | "disconnected"
    connects,         \* connect() calls started on that object
    disconnects,      \* disconnect() calls made on that object
    scope,            \* position of the `async with` user: "outside" | "body"
    mode,             \* the call in progress: "none" | "query" | "stream"
    pc,               \* "idle" | "ctx_yielded" | "receiving" | "returned" | "raised"
    error,            \* exception the call raised, "none" if none
    callActive,       \* history: the connection was active when the call was made
    argMessage,       \* history: the message argument of the call
    full_message,     \* local full_message of the call
    sent,             \* messages passed to self.client.query during the call
    events,           \* events the generator has yielded during the call
    eventIds,         \* history: per event, the call identifier of its block
    tool_calls,       \* local tool_calls
    tool_id_to_name,  \* local tool_id_to_name, as a set of <<id, name>> pairs
    response_text,    \* local response_text of query (sequence of text chunks)
    result,           \* value returned by query
    nblocks,          \* content blocks received during the call
    \* ---- SchemaService (schema_service.py 12-36) ----
    _cache,           \* SchemaService._cache
    _cache_time,      \* SchemaService._cache_time
    fetches,          \* history: successful context_graph_client.get_schema() calls
    schemaOp,         \* history: the last SchemaService call and its outcome
    priorOnFailure,   \* history: the cache a failed refresh found, until a fetch succeeds
    \* ---- SchemaService called from several threads ----
    thr,              \* per thread: the call it is in and its position
    observed,         \* history: per thread, what its last read of the cache saw
    \* ---- the MCP tools (agent.py 88-380) ----
    toolCall,         \* history: the last tool call (tool, args, environment)
    toolResult,       \* what the last tool call gave back to the agent runtime
    \* ---- the envelope builders and slim_properties (agent.py 17-55, 184-212, 265-290) ----
    graphIn,          \* the record or GraphData the driver handed over
    graphOut,         \* history: the builder applied and the envelope it built
    props,            \* the mapping passed to slim_properties
    slim,             \* what slim_properties(props) returned
    reslim,           \* what slim_properties returned for that result
    \* ---- FlowStore (flow_store.py 68-273) ----
    flows,            \* the flows table: id -> row
    clock,            \* the wall clock, in half seconds
    sql_mode,         \* the database server's setting for values wider than a column
    flowOp,           \* history: the last FlowStore call, its arguments and outcome
    \* ---- suggestions_service.py ----
    parseIn,          \* the text given to _parse_questions_from_text, and how it was made
    parseOut,         \* what _parse_questions_from_text returned
    DEFAULT_QUESTIONS, \* the module's list DEFAULT_QUESTIONS
    genPc,            \* generate_suggested_questions: "idle" | "posting" | "returned"
    attempt,          \* loop variable attempt
    posts,            \* history: client.post calls made in the call
    sleeps,           \* history: the asyncio.sleep waits of the call, in order
    genCase,          \* history: what the last pass of the call met
    genText,          \* history: the text taken from the response body
    genResult,        \* the list the call returned, as a reference
    \* ---- SchemaService.get_schema_summary (schema_service.py 38-85) ----
    summaryOut        \* what get_schema_summary did: the schema it read, its report

agentVars == <<overrides, options, conversation, client, cstate, connects, disconnects, scope, mode, pc,
               error, callActive, argMessage, full_message, sent, events, eventIds,
               tool_calls, tool_id_to_name, response_text,
               result, nblocks>>

schemaVars == <<_cache, _cache_time, fetches, schemaOp, priorOnFailure>>
threadVars == <<thr, observed>>
toolVars == <<toolCall, toolResult>>

graphVars == <<graphIn, graphOut>>
slimVars == <<props, slim, reslim>>
flowVars == <<flows, clock, sql_mode, flowOp>>
parseVars == <<parseIn, parseOut>>
genVars == <<DEFAULT_QUESTIONS, genPc, attempt, posts, sleeps, genCase, genText, genResult>>
summaryVars == <<summaryOut>>
sugVars == <<parseVars, genVars, summaryVars>>
libVars == <<graphVars, slimVars, flowVars, sugVars>>

nonAgentVars == <<schemaVars, threadVars, toolVars, libVars>>

vars == <<agentVars, schemaVars, threadVars, toolVars, libVars>>

(***************************************************************************)
(* Bounds                                                                  *)
(***************************************************************************)
MaxBlocks == 2     \* content blocks the upstream delivers in one response
MaxHist == 7       \* longest conversation_history passed to a call
MaxFetches == 3    \* successful schema fetches in one run
NThreads == 2      \* threads calling SchemaService

(***************************************************************************)
(* Python helpers                                                          *)
(***************************************************************************)
NoneId == "None"
PyNone == [py |-> "None"]
PyStr(s) == [py |-> "str", s |-> s]

Max(a, b) == IF a >= b THEN a ELSE b
Min(a, b) == IF a <= b THEN a ELSE b

\* ch * n
Repeat(ch, n) == [i \in 1..n |-> ch]

\* str.upper() on the role names that occur
Upper(role) ==
    CASE role = "user" -> "USER"
      [] role = "assistant" -> "ASSISTANT"
      [] role = "system" -> "SYSTEM"
      [] OTHER -> role

\* json.loads(text): the decoded value, or the exception raised.
\* text is [t |-> "str", s |-> ...] or a non-string ([t |-> "null"]).
json_loads(text) ==
    IF text.t # "str" THEN [raised |-> TRUE, exc |-> "TypeError"]
    ELSE CASE text.s = "{}" -> [raised |-> FALSE, value |-> [py |-> "dict", len |-> 0]]
           [] text.s = "[1]" -> [raised |-> FALSE, value |-> [py |-> "list", len |-> 1]]
           [] text.s = "7" -> [raised |-> FALSE, value |-> [py |-> "int", n |-> 7]]
           [] OTHER -> [raised |-> TRUE, exc |-> "JSONDecodeError"]

\* The Python value of a text attribute (a str, or None for JSON null)
TextValue(text) == IF text.t = "str" THEN PyStr(text.s) ELSE PyNone


(***************************************************************************)
(* Inputs of the agent session                                             *)
(***************************************************************************)
Str(s) == [t |-> "str", s |-> s]
TextNull == [t |-> "null"]
TextMissing == [t |-> "missing"]

DictText(text) == [kind |-> "dict", type |-> "text", text |-> text]
DictImage == [kind |-> "dict", type |-> "image", text |-> TextMissing]
ObjText(text) == [kind |-> "obj", type |-> "-", text |-> text]
PlainItem == [kind |-> "plain", type |-> "-", text |-> TextMissing]

ContentNone == [shape |-> "none"]
ContentOther == [shape |-> "other"]
ContentStr(s) == [shape |-> "str", text |-> Str(s)]
ContentList(items) == [shape |-> "list", items |-> items]

\* Tool-result payloads the upstream may deliver in ToolResultBlock.content
Payloads ==
    { ContentNone, ContentOther,
      ContentStr("{}"), ContentStr("oops"), ContentStr(""),
      ContentList(<<>>),
      ContentList(<<DictText(Str("[1]"))>>),
      ContentList(<<DictText(Str("oops"))>>),
      ContentList(<<DictText(Str("{}")), DictText(Str("oops"))>>),
      ContentList(<<DictImage, ObjText(Str("7"))>>),
      ContentList(<<PlainItem, ObjText(Str("oops"))>>),
      ContentList(<<DictText(TextMissing)>>),
      ContentList(<<DictText(TextNull)>>) }

CallIds == {NoneId, "t1", "t2"}
ToolNames == {"search_nodes", "find_paths"}

TextBlocks == {[cls |-> "TextBlock", text |-> "hello"]}
ToolUseBlocks ==
    [cls : {"ToolUseBlock"}, id : CallIds, name : ToolNames,
     hasInput : BOOLEAN, input : {"in1"}]
ToolResultBlocks ==
    [cls : {"ToolResultBlock"}, tool_use_id : CallIds, content : Payloads]
OtherBlocks == {[cls |-> "ThinkingBlock"]}
Blocks == TextBlocks \cup ToolUseBlocks \cup ToolResultBlocks \cup OtherBlocks

\* type(msg).__name__ of the messages that carry content blocks
MsgTypes == {"UserMessage", "AssistantMessage"}

Messages == {"q1"}
HistEntries == {[role |-> "user", content |-> "hi"],
                [role |-> "assistant", content |-> "yo"]}
NoHistory == [given |-> FALSE]
Given(h) == [given |-> TRUE, msgs |-> h]

RECURSIVE SeqsUpTo(_, _)
SeqsUpTo(S, n) ==
    IF n = 0 THEN {<<>>}
    ELSE LET shorter == SeqsUpTo(S, n - 1)
         IN shorter \cup {Append(s, e) : s \in {x \in shorter : Len(x) = n - 1}, e \in S}

\* every history of at most MaxHist entries, and None
AllHistories == {NoHistory} \cup {Given(h) : h \in SeqsUpTo(HistEntries, MaxHist)}
\* the histories of the callers whose responses are streamed
FewHistories ==
    {NoHistory, Given(<<>>),
     Given(<<[role |-> "user", content |-> "hi"], [role |-> "assistant", content |-> "yo"]>>)}

OverrideNone == [given |-> FALSE]
OverrideSets ==
    { [system_prompt |-> OverrideNone, enabled_tools |-> OverrideNone, model |-> OverrideNone],
      [system_prompt |-> [given |-> TRUE, v |-> "custom prompt"],
       enabled_tools |-> [given |-> TRUE, v |-> <<"get_schema", "find_paths">>],
       model |-> [given |-> TRUE, v |-> "claude-opus"]] }

(***************************************************************************)
(* agent.py: pure parts of ContextGraphAgent                               *)
(***************************************************************************)
HistoryWindow == 6
DefaultModel == "claude-sonnet-4-20250514"
AVAILABLE_TOOLS ==
    <<"get_schema", "explore_nodes", "search_nodes", "find_paths",
      "analyze_patterns", "execute_cypher">>

\* build_system_prompt(): the prompt built around the schema summary
build_system_prompt == "prompt built from the schema summary"

\* s.strip() on the prompt overrides that occur
Strip(s) ==
    CASE s = " " -> ""
      [] s = " custom prompt " -> "custom prompt"
      [] OTHER -> s

get_agent_context(ov) ==
    [system_prompt |->
        IF ov.system_prompt.given /\ ov.system_prompt.v # ""
           /\ Strip(ov.system_prompt.v) # ""
        THEN Strip(ov.system_prompt.v) ELSE build_system_prompt,
     model |-> IF ov.model.given /\ ov.model.v # "" THEN ov.model.v ELSE DefaultModel,
     available_tools |->
        IF ov.enabled_tools.given /\ ov.enabled_tools.v # <<>>
        THEN ov.enabled_tools.v ELSE AVAILABLE_TOOLS,
     mcp_server |-> "context-graph"]

\* TOOL_TO_MCP[t] (agent.py 404-411): the short name behind the server's prefix
McpName(t) == <<"mcp__graph__", t>>
KnownTool(t) == \E i \in 1..Len(AVAILABLE_TOOLS) : AVAILABLE_TOOLS[i] = t

\* _allowed_tools_from_enabled (agent.py 415-419)
allowed_tools_from_enabled(enabled) ==
    IF ~enabled.given \/ enabled.v = <<>>
    THEN [i \in 1..Len(AVAILABLE_TOOLS) |-> McpName(AVAILABLE_TOOLS[i])]
    ELSE LET known == SelectSeq(enabled.v, KnownTool)
         IN [i \in 1..Len(known) |-> McpName(known[i])]

\* opts.model is left to the SDK
ModelUnset == "unset"

\* get_agent_options (agent.py 422-450)
get_agent_options(ov) ==
    [system_prompt |->
        IF ov.system_prompt.given /\ Strip(ov.system_prompt.v) # ""
        THEN ov.system_prompt.v ELSE build_system_prompt,
     allowed_tools |-> allowed_tools_from_enabled(ov.enabled_tools),
     model |-> IF ov.model.given /\ ov.model.v # "" THEN ov.model.v ELSE ModelUnset,
     mcp_servers |-> {"graph"}]

\* the overrides a Flow may hand to the agent
AllOverrides ==
    [system_prompt : {OverrideNone} \cup
                     {[given |-> TRUE, v |-> p] : p \in {"", " ", "custom prompt", " custom prompt "}},
     enabled_tools : {OverrideNone} \cup
                     {[given |-> TRUE, v |-> t] :
                         t \in {<<>>, <<"get_schema", "find_paths">>, <<"find_paths", "bogus">>,
                                <<"bogus">>}},
     model : {OverrideNone} \cup {[given |-> TRUE, v |-> m] : m \in {"", "claude-opus"}}]

\* conversation_history[:6]: the first messages instead of the last
LastMessagesFromStart(h) == SubSeq(h, 1, Min(Len(h), HistoryWindow))

\* conversation_history[-6:]
LastMessages(h) == SubSeq(h, Max(1, Len(h) - HistoryWindow + 1), Len(h))

\* The message handed to the client.  The f-string is kept as its parts: the
\* "ROLE: content" lines of the preamble, in order, and the current message.
BuildFullMessage(message, history) ==
    IF history.given /\ Len(history.msgs) > 0
    THEN [kind |-> "with_history",
          lines |-> [i \in 1..Len(LastMessages(history.msgs)) |->
                        <<Upper(LastMessages(history.msgs)[i].role),
                          LastMessages(history.msgs)[i].content>>],
          current |-> message]
    ELSE [kind |-> "plain", text |-> message]

\* the try/except around json.loads (agent.py 631-634, 637-640, 643-646)
LoadsOrRaw(arg, raw) ==
    LET r == json_loads(arg)
    IN IF ~r.raised THEN r
       ELSE IF r.exc = "JSONDecodeError" THEN [raised |-> FALSE, value |-> TextValue(raw)]
       ELSE r

\* the loop over the content items (agent.py 629-641)
RECURSIVE ParseItems(_, _)
ParseItems(items, i) ==
    IF i > Len(items) THEN [raised |-> FALSE, value |-> PyNone]
    ELSE IF items[i].kind = "dict" /\ items[i].type = "text"
    THEN LoadsOrRaw(IF items[i].text.t = "missing" THEN Str("{}") ELSE items[i].text,
                    items[i].text)
    ELSE IF items[i].kind = "obj" /\ items[i].text.t # "missing"
    THEN LoadsOrRaw(items[i].text, items[i].text)
    ELSE ParseItems(items, i + 1)

\* parsed_output of a ToolResultBlock (agent.py 625-646)
ParseBlockContent(content) ==
    CASE content.shape = "list" -> ParseItems(content.items, 1)
      [] content.shape = "str" -> LoadsOrRaw(content.text, content.text)
      [] OTHER -> [raised |-> FALSE, value |-> PyNone]

\* a lookup under a key that is never stored
LookupToolNameWrongKey(map, id) == "unknown"

\* tool_id_to_name.get(tool_use_id, "unknown")
LookupToolName(map, id) ==
    IF \E p \in map : p[1] = id
    THEN (CHOOSE p \in map : p[1] = id)[2]
    ELSE "unknown"

\* tool_id_to_name[tool_id] = block.name
SetToolName(map, id, name) == {p \in map : p[1] # id} \cup {<<id, name>>}

\* the tool_call dict built from a tool-use block (agent.py 670-673, 560-565)
ToolCallOf(block) ==
    [name |-> block.name,
     input |-> IF block.hasInput THEN PyStr(block.input) ELSE [py |-> "dict", len |-> 0]]


\* the call is recorded only when the block carries a call identifier
AppendToolCallIfId(calls, block) ==
    IF block.id # NoneId THEN Append(calls, ToolCallOf(block)) ELSE calls

\* tool_calls.append(tool_call) (agent.py 674, 560)
AppendToolCall(calls, block) == Append(calls, ToolCallOf(block))

\* if tool_id: tool_id_to_name[tool_id] = block.name (agent.py 677-678)
TrackToolId(map, block) ==
    IF block.id # NoneId THEN SetToolName(map, block.id, block.name) ELSE map

\* the first event of query_stream (agent.py 594-601)
AgentContextEvent(ov) == [type |-> "agent_context", context |-> get_agent_context(ov)]

\* the final event of query_stream (agent.py 683-687)
DoneEvent(calls) == [type |-> "done", tool_calls |-> calls, decisions_made |-> <<>>]

\* `if not self.client` (agent.py 525, 576)
NotConnectedGuard == client = "None"

(***************************************************************************)
(* ContextGraphAgent: the session as a state machine                       *)
(***************************************************************************)
Unset == [kind |-> "unset"]

\* the session of an agent that has just been built
InitSession ==
    /\ options = get_agent_options(overrides)
    /\ client = "None"
    /\ cstate = "none"
    /\ connects = 0
    /\ disconnects = 0
    /\ scope = "outside"
    /\ mode = "none"
    /\ pc = "idle"
    /\ error = "none"
    /\ callActive = FALSE
    /\ argMessage = ""
    /\ full_message = Unset
    /\ sent = <<>>
    /\ events = <<>>
    /\ eventIds = <<>>
    /\ tool_calls = <<>>
    /\ tool_id_to_name = {}
    /\ response_text = <<>>
    /\ result = Unset
    /\ nblocks = 0

InitAgent ==
    /\ overrides \in OverrideSets
    /\ InitSession

callVars == <<mode, pc, error, callActive, argMessage, full_message, sent, events, eventIds,
              tool_calls, tool_id_to_name, response_text, result, nblocks>>
connVars == <<client, cstate, connects, disconnects, scope>>

\* no call is in progress
CallOver == pc \in {"idle", "returned", "raised"}

\* the connection is active: a client exists and its connect succeeded and it
\* has not been disconnected
Active == client # "None" /\ cstate = "connected"

\* `async with agent:` is entered: __aenter__ (agent.py 512-515).  A new client
\* object replaces self.client, then connect() runs; when it raises, the
\* exception leaves the `async with` statement and __aexit__ is not called.
aenter(connectOk) ==
    /\ scope = "outside"
    /\ CallOver
    /\ client' = "client"
    /\ connects' = 1
    /\ disconnects' = 0
    /\ cstate' = IF connectOk THEN "connected" ELSE "failed"
    /\ scope' = IF connectOk THEN "body" ELSE "outside"
    /\ UNCHANGED <<nonAgentVars, overrides, options, conversation, callVars>>

\* the `async with` body ends, normally or by raising: __aexit__ (agent.py 517-519)
aexit(bodyRaised) ==
    /\ scope = "body"
    /\ CallOver
    /\ scope' = "outside"
    /\ IF client # "None"
       THEN /\ disconnects' = disconnects + 1
            /\ cstate' = "disconnected"
       ELSE UNCHANGED <<disconnects, cstate>>
    /\ UNCHANGED <<nonAgentVars, overrides, options, conversation, client, connects, callVars>>

\* query_stream is called and run to its first yield (agent.py 572-601)
query_stream(message, history) ==
    /\ CallOver
    /\ mode' = "stream"
    /\ callActive' = Active
    /\ argMessage' = message
    /\ sent' = <<>>
    /\ tool_calls' = <<>>
    /\ tool_id_to_name' = {}
    /\ response_text' = <<>>
    /\ result' = Unset
    /\ nblocks' = 0
    /\ IF NotConnectedGuard
       THEN /\ pc' = "raised"
            /\ error' = "RuntimeError"
            /\ full_message' = Unset
            /\ events' = <<>>
            /\ eventIds' = <<>>
       ELSE /\ pc' = "ctx_yielded"
            /\ error' = "none"
            /\ full_message' = BuildFullMessage(message, history)
            /\ events' = <<AgentContextEvent(overrides)>>
            /\ eventIds' = <<NoneId>>
    /\ UNCHANGED <<nonAgentVars, overrides, options, conversation, connVars>>

\* query_stream resumes after the first yield: await self.client.query(full_message)
\* (agent.py 604).  The SDK client raises when it is not connected; a connected
\* client may fail as well.
stream_send(clientOk) ==
    /\ pc = "ctx_yielded"
    /\ sent' = Append(sent, full_message)
    /\ IF cstate = "connected" /\ clientOk
       THEN /\ pc' = "receiving"
            /\ error' = "none"
       ELSE /\ pc' = "raised"
            /\ error' = "ClientError"
    /\ UNCHANGED <<nonAgentVars, overrides, options, conversation, connVars, mode, callActive, argMessage, full_message, events,
                   eventIds, tool_calls, tool_id_to_name, response_text, result, nblocks>>

\* query is called and run up to the response loop (agent.py 521-550)
query(message, history, clientOk) ==
    /\ CallOver
    /\ mode' = "query"
    /\ callActive' = Active
    /\ argMessage' = message
    /\ events' = <<>>
    /\ eventIds' = <<>>
    /\ tool_calls' = <<>>
    /\ tool_id_to_name' = {}
    /\ response_text' = <<>>
    /\ result' = Unset
    /\ nblocks' = 0
    /\ IF NotConnectedGuard
       THEN /\ pc' = "raised"
            /\ error' = "RuntimeError"
            /\ full_message' = Unset
            /\ sent' = <<>>
       ELSE /\ full_message' = BuildFullMessage(message, history)
            /\ sent' = <<BuildFullMessage(message, history)>>
            /\ IF cstate = "connected" /\ clientOk
               THEN /\ pc' = "receiving"
                    /\ error' = "none"
               ELSE /\ pc' = "raised"
                    /\ error' = "ClientError"
    /\ UNCHANGED <<nonAgentVars, overrides, options, conversation, connVars>>

\* one content block of a UserMessage in query_stream (agent.py 614-659)
stream_user_block(block) ==
    IF block.cls = "ToolResultBlock" /\ block.tool_use_id # NoneId
    THEN IF ParseBlockContent(block.content).raised
         THEN /\ pc' = "raised"
              /\ error' = ParseBlockContent(block.content).exc
              /\ UNCHANGED <<events, eventIds>>
         ELSE /\ events' = Append(events,
                     [type |-> "tool_result",
                      name |-> LookupToolName(tool_id_to_name, block.tool_use_id),
                      output |-> ParseBlockContent(block.content).value])
              /\ eventIds' = Append(eventIds, block.tool_use_id)
              /\ UNCHANGED <<pc, error>>
    ELSE UNCHANGED <<pc, error, events, eventIds>>

\* one content block of any other message in query_stream (agent.py 662-680)
stream_assistant_block(block) ==
    /\ UNCHANGED <<pc, error>>
    /\ IF block.cls = "TextBlock"
       THEN /\ events' = Append(events, [type |-> "text", content |-> block.text])
            /\ eventIds' = Append(eventIds, NoneId)
            /\ UNCHANGED <<tool_calls, tool_id_to_name>>
       ELSE IF block.cls = "ToolUseBlock"
       THEN /\ tool_calls' = AppendToolCall(tool_calls, block)
            /\ tool_id_to_name' = TrackToolId(tool_id_to_name, block)
            /\ events' = Append(events,
                    [type |-> "tool_use", name |-> ToolCallOf(block).name,
                     input |-> ToolCallOf(block).input])
            /\ eventIds' = Append(eventIds, block.id)
       ELSE UNCHANGED <<events, eventIds, tool_calls, tool_id_to_name>>

\* the response loop receives a message; its blocks are taken one per step
\* (agent.py 552-565 for query, 610-680 for query_stream)
recv_block(msgType, block) ==
    /\ pc = "receiving"
    /\ nblocks < MaxBlocks
    /\ nblocks' = nblocks + 1
    /\ IF mode = "stream"
       THEN /\ IF msgType = "UserMessage"
               THEN /\ stream_user_block(block)
                    /\ UNCHANGED <<tool_calls, tool_id_to_name>>
               ELSE stream_assistant_block(block)
            /\ UNCHANGED response_text
       ELSE /\ UNCHANGED <<pc, error, events, eventIds, tool_id_to_name>>
            /\ IF block.cls = "TextBlock"
               THEN /\ response_text' = Append(response_text, block.text)
                    /\ UNCHANGED tool_calls
               ELSE IF block.cls = "ToolUseBlock"
               THEN /\ tool_calls' = AppendToolCall(tool_calls, block)
                    /\ UNCHANGED response_text
               ELSE UNCHANGED <<tool_calls, response_text>>
    /\ UNCHANGED <<nonAgentVars, overrides, options, conversation, connVars, mode, callActive, argMessage, full_message, sent, result>>

\* the response loop receives a message without a content attribute
\* (fails hasattr(msg, "content"), agent.py 554, 614, 662)
recv_no_content ==
    /\ pc = "receiving"
    /\ nblocks < MaxBlocks
    /\ nblocks' = nblocks + 1
    /\ UNCHANGED <<nonAgentVars, overrides, options, conversation, connVars, mode, pc, error, callActive, argMessage,
                   full_message, sent, events, eventIds, tool_calls, tool_id_to_name, response_text, result>>

\* the generator returns without its final yield
recv_end_without_done ==
    /\ pc = "receiving"
    /\ pc' = "returned"
    /\ IF mode = "stream"
       THEN UNCHANGED <<events, eventIds, result>>
       ELSE /\ result' = [response |-> response_text, tool_calls |-> tool_calls,
                          decisions_made |-> <<>>]
            /\ UNCHANGED <<events, eventIds>>
    /\ UNCHANGED <<nonAgentVars, overrides, options, conversation, connVars, mode, error, callActive, argMessage,
                   full_message, sent, tool_calls, tool_id_to_name, response_text, nblocks>>

\* receive_response() is exhausted: the final event or the return value
\* (agent.py 566-570, 682-687)
recv_end ==
    /\ pc = "receiving"
    /\ pc' = "returned"
    /\ IF mode = "stream"
       THEN /\ events' = Append(events, DoneEvent(tool_calls))
            /\ eventIds' = Append(eventIds, NoneId)
            /\ UNCHANGED result
       ELSE /\ result' = [response |-> response_text, tool_calls |-> tool_calls,
                          decisions_made |-> <<>>]
            /\ UNCHANGED <<events, eventIds>>
    /\ UNCHANGED <<nonAgentVars, overrides, options, conversation, connVars, mode, error, callActive, argMessage, full_message, sent,
                   tool_calls, tool_id_to_name, response_text, nblocks>>

\* receive_response() raises (the upstream fails while the response is read)
recv_fail ==
    /\ pc = "receiving"
    /\ pc' = "raised"
    /\ error' = "ClientError"
    /\ UNCHANGED <<nonAgentVars, overrides, options, conversation, connVars, mode, callActive, argMessage, full_message, sent, events,
                   eventIds, tool_calls, tool_id_to_name, response_text, result, nblocks>>

(***************************************************************************)
(* schema_service.py: SchemaService, one call at a time                    *)
(***************************************************************************)
\* Schema documents context_graph_client.get_schema() may return.  `present`
\* holds the keys of the dict; {} is the dict without keys.
EmptyDict == [present |-> {}]
PersonSchema ==
    [present |-> {"node_labels", "node_counts"},
     node_labels |-> <<"Person">>,
     node_counts |-> {<<"Person", 5>>}]
GraphSchema ==
    [present |-> {"node_labels", "node_counts", "relationship_types", "property_keys"},
     node_labels |-> <<"Person", "Decision">>,
     node_counts |-> {<<"Person", 5>>, <<"Decision", 2>>},
     relationship_types |-> <<"MADE">>,
     property_keys |-> <<"id", "name">>]
SchemaDocs == {EmptyDict, PersonSchema, GraphSchema}

\* what one call of context_graph_client.get_schema() does: it raises or
\* returns a document
FetchOutcomes == {[ok |-> FALSE]} \cup {[ok |-> TRUE, doc |-> d] : d \in SchemaDocs}

\* bool(d) of a dict
Truthy(doc) == doc.present # {}

\* _cache is None, or a document; `fetch` (history) numbers the successful fetch
\* that returned it, 0 for the {} the failure handler stores
NoCache == [set |-> FALSE]
Cached(doc, k) == [set |-> TRUE, doc |-> doc, fetch |-> k]
\* _cache_time is None, or datetime.now() taken after fetch number k
NoTime == [set |-> FALSE]
TimeOf(k) == [set |-> TRUE, fetch |-> k]

\* the failure handler drops the cached schema
CacheAfterFailureCleared(c) == Cached(EmptyDict, 0)

\* the except branch of refresh (schema_service.py 33-35)
CacheAfterFailure(c) == IF ~c.set THEN Cached(EmptyDict, 0) ELSE c

\* SchemaService.refresh (schema_service.py 26-36) run without interruption:
\* the fields after the call and the exception it raises
refresh_effect(c, t, n, out) ==
    IF out.ok
    THEN [cache |-> Cached(out.doc, n + 1), time |-> TimeOf(n + 1),
          fetches |-> n + 1, raised |-> "none", contacted |-> TRUE]
    ELSE [cache |-> CacheAfterFailure(c), time |-> t,
          fetches |-> n, raised |-> "RuntimeError", contacted |-> TRUE]

\* the schema is fetched on every call
get_schema_always_fetches(c, t, n, out) ==
    LET r == refresh_effect(c, t, n, out)
    IN [cache |-> r.cache, time |-> r.time, fetches |-> r.fetches,
        raised |-> r.raised, contacted |-> TRUE,
        value |-> IF r.raised = "none" /\ Truthy(r.cache.doc) THEN r.cache.doc ELSE EmptyDict]

\* SchemaService.get_schema (schema_service.py 18-24) run without interruption;
\* `contacted` tells whether context_graph_client.get_schema() was called
get_schema_effect(c, t, n, out) ==
    IF c.set
    THEN [cache |-> c, time |-> t, fetches |-> n, raised |-> "none", value |-> c.doc,
          contacted |-> FALSE]
    ELSE LET r == refresh_effect(c, t, n, out)
         IN [cache |-> r.cache, time |-> r.time, fetches |-> r.fetches,
             raised |-> r.raised, contacted |-> TRUE,
             value |-> IF r.raised = "none" /\ Truthy(r.cache.doc)
                       THEN r.cache.doc ELSE EmptyDict]

\* a fetch is attempted by get_schema only while nothing is cached
Fetches(c, out) == ~c.set /\ out.ok

NoPrior == [given |-> FALSE]

InitSchema ==
    /\ _cache = NoCache
    /\ _cache_time = NoTime
    /\ fetches = 0
    /\ schemaOp = [op |-> "none"]
    /\ priorOnFailure = NoPrior

\* SchemaService.refresh() is called
refresh(out) ==
    /\ out.ok => fetches < MaxFetches
    /\ _cache' = refresh_effect(_cache, _cache_time, fetches, out).cache
    /\ _cache_time' = refresh_effect(_cache, _cache_time, fetches, out).time
    /\ fetches' = refresh_effect(_cache, _cache_time, fetches, out).fetches
    /\ schemaOp' = [op |-> "refresh",
                    raised |-> refresh_effect(_cache, _cache_time, fetches, out).raised,
                    contacted |-> refresh_effect(_cache, _cache_time, fetches, out).contacted,
                    before |-> _cache, beforeTime |-> _cache_time]
    /\ priorOnFailure' = IF ~out.ok /\ _cache.set
                         THEN [given |-> TRUE, doc |-> _cache.doc]
                         ELSE NoPrior
    /\ UNCHANGED <<agentVars, threadVars, toolVars, libVars>>

\* SchemaService.get_schema() is called
get_schema(out) ==
    /\ Fetches(_cache, out) => fetches < MaxFetches
    /\ _cache' = get_schema_effect(_cache, _cache_time, fetches, out).cache
    /\ _cache_time' = get_schema_effect(_cache, _cache_time, fetches, out).time
    /\ fetches' = get_schema_effect(_cache, _cache_time, fetches, out).fetches
    /\ schemaOp' = [op |-> "get_schema",
                    raised |-> get_schema_effect(_cache, _cache_time, fetches, out).raised,
                    contacted |-> get_schema_effect(_cache, _cache_time, fetches, out).contacted,
                    returned |-> get_schema_effect(_cache, _cache_time, fetches, out).value,
                    before |-> _cache, beforeTime |-> _cache_time]
    /\ UNCHANGED priorOnFailure
    /\ UNCHANGED <<agentVars, threadVars, toolVars, libVars>>

(***************************************************************************)
(* schema_service.py: SchemaService called from several threads.  A thread *)
(* switch can fall between any two statements, and between the call on the *)
(* right of an assignment and the store.                                   *)
(***************************************************************************)
Threads == 1..NThreads

IdleThread == [pc |-> "idle", op |-> "none", fetched |-> NoCache]
NotObserved == [given |-> FALSE]

InitThreads ==
    /\ thr = [t \in Threads |-> IdleThread]
    /\ observed = [t \in Threads |-> NotObserved]

\* what a thread that reads the class attributes now sees: the fetch that
\* produced the cache and the fetch the timestamp was taken after
Snapshot ==
    [given |-> TRUE,
     cacheSet |-> _cache.set,
     cacheFetch |-> IF _cache.set THEN _cache.fetch ELSE 0,
     timeFetch |-> IF _cache_time.set THEN _cache_time.fetch ELSE 0]

schemaHistory == <<schemaOp, priorOnFailure>>

\* a thread calls SchemaService.get_schema()
t_call_get_schema(t) ==
    /\ thr[t].pc = "idle"
    /\ thr' = [thr EXCEPT ![t] = [pc |-> "check", op |-> "get_schema", fetched |-> NoCache]]
    /\ UNCHANGED <<_cache, _cache_time, fetches, observed, schemaHistory, agentVars, toolVars, libVars>>

\* a thread calls SchemaService.refresh()
t_call_refresh(t) ==
    /\ thr[t].pc = "idle"
    /\ thr' = [thr EXCEPT ![t] = [pc |-> "fetch", op |-> "refresh", fetched |-> NoCache]]
    /\ UNCHANGED <<_cache, _cache_time, fetches, observed, schemaHistory, agentVars, toolVars, libVars>>

\* `if cls._cache is not None: return cls._cache`, else call refresh
\* (schema_service.py 21-23)
t_check(t) ==
    /\ thr[t].pc = "check"
    /\ IF _cache.set
       THEN /\ observed' = [observed EXCEPT ![t] = Snapshot]
            /\ thr' = [thr EXCEPT ![t] = IdleThread]
       ELSE /\ thr' = [thr EXCEPT ![t].pc = "fetch"]
            /\ UNCHANGED observed
    /\ UNCHANGED <<_cache, _cache_time, fetches, schemaHistory, agentVars, toolVars, libVars>>

\* context_graph_client.get_schema() returns or raises (schema_service.py 30,
\* right-hand side)
t_fetch(t, out) ==
    /\ thr[t].pc = "fetch"
    /\ out.ok => fetches < MaxFetches
    /\ IF out.ok
       THEN /\ fetches' = fetches + 1
            /\ thr' = [thr EXCEPT ![t].pc = "store_cache",
                                  ![t].fetched = Cached(out.doc, fetches + 1)]
       ELSE /\ thr' = [thr EXCEPT ![t].pc = "except"]
            /\ UNCHANGED fetches
    /\ UNCHANGED <<_cache, _cache_time, observed, schemaHistory, agentVars, toolVars, libVars>>

\* cls._cache = <the fetched document> (schema_service.py 30, the store)
t_store_cache(t) ==
    /\ thr[t].pc = "store_cache"
    /\ _cache' = thr[t].fetched
    /\ thr' = [thr EXCEPT ![t].pc = "store_time"]
    /\ UNCHANGED <<_cache_time, fetches, observed, schemaHistory, agentVars, toolVars, libVars>>

\* cls._cache_time = datetime.now() (schema_service.py 31); refresh returns
t_store_time(t) ==
    /\ thr[t].pc = "store_time"
    /\ _cache_time' = TimeOf(thr[t].fetched.fetch)
    /\ thr' = [thr EXCEPT ![t].pc = IF thr[t].op = "get_schema" THEN "return" ELSE "idle"]
    /\ UNCHANGED <<_cache, fetches, observed, schemaHistory, agentVars, toolVars, libVars>>

\* `if cls._cache is None` in the except branch (schema_service.py 34); when a
\* schema is cached the RuntimeError is raised at once (36) and ends the call
t_except_check(t) ==
    /\ thr[t].pc = "except"
    /\ thr' = [thr EXCEPT ![t] = IF _cache.set THEN IdleThread
                                 ELSE [thr[t] EXCEPT !.pc = "except_store"]]
    /\ UNCHANGED <<_cache, _cache_time, fetches, observed, schemaHistory, agentVars, toolVars, libVars>>

\* cls._cache = {} and raise RuntimeError (schema_service.py 35-36)
t_except_store(t) ==
    /\ thr[t].pc = "except_store"
    /\ _cache' = Cached(EmptyDict, 0)
    /\ thr' = [thr EXCEPT ![t] = IdleThread]
    /\ UNCHANGED <<_cache_time, fetches, observed, schemaHistory, agentVars, toolVars, libVars>>

\* `return cls._cache or {}` (schema_service.py 24)
t_return(t) ==
    /\ thr[t].pc = "return"
    /\ observed' = [observed EXCEPT ![t] = Snapshot]
    /\ thr' = [thr EXCEPT ![t] = IdleThread]
    /\ UNCHANGED <<_cache, _cache_time, fetches, schemaHistory, agentVars, toolVars, libVars>>

(***************************************************************************)
(* agent.py: the graph envelopes built by graph_data_to_dict, search_nodes *)
(* and find_paths.  Labels and properties of the items are left out: the   *)
(* builders copy them without looking at them.                             *)
(***************************************************************************)
MaxNodes == 2      \* nodes in one driver result
MaxRels == 2       \* relationships in one driver result

NodeIds == {"a", "b"}
\* ids a relationship may end at; "c" is a node the driver did not return
EndpointIds == {"b", "c"}
RelIds == {"r1", "r2"}

\* None in a collected list
NullItem == [kind |-> "None", truthy |-> FALSE]
\* a neo4j Node; `truthy` is bool(node)
DriverNode(id, truthy) == [kind |-> "node", element_id |-> id, truthy |-> truthy]
\* a neo4j Relationship; `truthy` is bool(rel)
DriverRel(id, s, e, truthy) ==
    [kind |-> "rel", element_id |-> id, start |-> s, end |-> e, truthy |-> truthy]

DriverNodes ==
    {DriverNode(id, TRUE) : id \in NodeIds} \cup {DriverNode("b", FALSE), NullItem}
DriverRels ==
    {DriverRel(id, s, e, TRUE) : id \in RelIds, s \in NodeIds, e \in EndpointIds}
        \cup {DriverRel("r1", "a", "b", FALSE), NullItem}

\* result.single(): None or a record with the columns nodes and rels
NoRecord == [kind |-> "None"]
Records ==
    {NoRecord} \cup
    {[kind |-> "record", nodes |-> ns, rels |-> rs] :
        ns \in SeqsUpTo(DriverNodes, MaxNodes), rs \in SeqsUpTo(DriverRels, MaxRels)}

\* context_graph_client.get_graph_data(): None or a GraphData
GraphNode(id) == [id |-> id]
GraphRel(id, s, e) == [id |-> id, start_node_id |-> s, end_node_id |-> e]
GraphDatas ==
    {NoRecord} \cup
    {[kind |-> "GraphData", nodes |-> ns, relationships |-> rs] :
        ns \in SeqsUpTo({GraphNode(id) : id \in NodeIds}, MaxNodes),
        rs \in SeqsUpTo({GraphRel(id, s, e) : id \in RelIds, s \in NodeIds, e \in EndpointIds},
                        MaxRels)}

EmptyEnvelope == [nodes |-> <<>>, relationships |-> <<>>]

\* {n["id"] for n in nodes}
IdsOf(nodes) == {nodes[i].id : i \in 1..Len(nodes)}

\* every id is taken for an id of a returned node
InAnyNodeIds(id, node_ids) == TRUE

\* `... in node_ids` (agent.py 53, 202, 280)
InNodeIds(id, node_ids) == id \in node_ids

\* str(x.element_id): element ids are strings already
ElementIdStr(id) == id

\* the node loop of search_nodes and find_paths (agent.py 186-195, 267-276)
RECURSIVE CollectNodes(_, _)
CollectNodes(items, seen) ==
    IF items = <<>> THEN <<>>
    ELSE LET node == Head(items)
         IN IF node.truthy /\ node.element_id \notin seen
            THEN <<[id |-> ElementIdStr(node.element_id)]>>
                    \o CollectNodes(Tail(items), seen \cup {node.element_id})
            ELSE CollectNodes(Tail(items), seen)

WireRel(rel) ==
    [id |-> ElementIdStr(rel.element_id),
     startNodeId |-> ElementIdStr(rel.start),
     endNodeId |-> ElementIdStr(rel.end)]

\* the relationship loop of search_nodes (agent.py 199-211)
RECURSIVE SearchRels(_, _, _)
SearchRels(items, rel_seen, node_ids) ==
    IF items = <<>> THEN <<>>
    ELSE LET rel == Head(items)
         IN IF rel.truthy /\ rel.element_id \notin rel_seen
            THEN (IF /\ InNodeIds(ElementIdStr(rel.start), node_ids)
                     /\ InNodeIds(ElementIdStr(rel.end), node_ids)
                  THEN <<WireRel(rel)>> ELSE <<>>)
                    \o SearchRels(Tail(items), rel_seen \cup {rel.element_id}, node_ids)
            ELSE SearchRels(Tail(items), rel_seen, node_ids)

\* the relationship loop of find_paths (agent.py 279-289)
RECURSIVE PathRels(_, _)
PathRels(items, node_ids) ==
    IF items = <<>> THEN <<>>
    ELSE LET rel == Head(items)
         IN (IF /\ rel.truthy
                /\ InNodeIds(ElementIdStr(rel.start), node_ids)
                /\ InNodeIds(ElementIdStr(rel.end), node_ids)
             THEN <<WireRel(rel)>> ELSE <<>>)
                \o PathRels(Tail(items), node_ids)

\* the envelope search_nodes builds from result.single() (agent.py 171-212)
search_nodes_envelope(record) ==
    IF record.kind = "None" THEN EmptyEnvelope
    ELSE LET nodes == CollectNodes(record.nodes, {})
         IN [nodes |-> nodes,
             relationships |-> SearchRels(record.rels, {}, IdsOf(nodes))]

\* only a missing record counts as no path
NoPathFoundRecordOnly(record) == record.kind = "None"

\* `not record or not record["nodes"]` (agent.py 253)
NoPathFound(record) == record.kind = "None" \/ record.nodes = <<>>

\* the envelope find_paths builds from result.single() (agent.py 252-290)
find_paths_envelope(record) ==
    IF NoPathFound(record) THEN EmptyEnvelope
    ELSE LET nodes == CollectNodes(record.nodes, {})
         IN [nodes |-> nodes,
             relationships |-> PathRels(record.rels, IdsOf(nodes))]

\* the list comprehension of graph_data_to_dict (agent.py 44-54)
RECURSIVE GraphDataRels(_, _)
GraphDataRels(rels, node_ids) ==
    IF rels = <<>> THEN <<>>
    ELSE LET r == Head(rels)
         IN (IF InNodeIds(r.start_node_id, node_ids) /\ InNodeIds(r.end_node_id, node_ids)
             THEN <<[id |-> r.id, startNodeId |-> r.start_node_id,
                     endNodeId |-> r.end_node_id]>>
             ELSE <<>>)
                \o GraphDataRels(Tail(rels), node_ids)

\* graph_data_to_dict (agent.py 35-55)
graph_data_to_dict(graph_data) ==
    IF graph_data.kind = "None" THEN EmptyEnvelope
    ELSE [nodes |-> [i \in 1..Len(graph_data.nodes) |-> [id |-> graph_data.nodes[i].id]],
          relationships |-> GraphDataRels(graph_data.relationships,
                                          IdsOf(graph_data.nodes))]

NotBuilt == [fn |-> "none"]

\* search_nodes turns the record into an envelope
build_search_nodes ==
    /\ graphOut = NotBuilt
    /\ graphIn.kind \in {"None", "record"}
    /\ graphOut' = [fn |-> "search_nodes", envelope |-> search_nodes_envelope(graphIn)]
    /\ UNCHANGED <<graphIn, slimVars, agentVars, schemaVars, threadVars, toolVars, flowVars, sugVars>>

\* find_paths turns the record into an envelope
build_find_paths ==
    /\ graphOut = NotBuilt
    /\ graphIn.kind \in {"None", "record"}
    /\ graphOut' = [fn |-> "find_paths", envelope |-> find_paths_envelope(graphIn)]
    /\ UNCHANGED <<graphIn, slimVars, agentVars, schemaVars, threadVars, toolVars, flowVars, sugVars>>

\* explore_nodes passes the GraphData to graph_data_to_dict
build_graph_data_to_dict ==
    /\ graphOut = NotBuilt
    /\ graphIn.kind \in {"None", "GraphData"}
    /\ graphOut' = [fn |-> "graph_data_to_dict", envelope |-> graph_data_to_dict(graphIn)]
    /\ UNCHANGED <<graphIn, slimVars, agentVars, schemaVars, threadVars, toolVars, flowVars, sugVars>>

(***************************************************************************)
(* flow_store.py: FlowStore over the flows table, one call at a time.      *)
(* A name is the sequence of its characters; the other text columns are    *)
(* runs of one character, [ch, n]; the clock counts half seconds.          *)
(***************************************************************************)
MaxClock == 1      \* half seconds the wall clock advances in one run

\* VARCHAR widths of the flows table (flow_store.py 46-50)
NameWidth == 200
SourceWidth == 100
ModelWidth == 100

\* values of str(uuid.uuid4())
FlowIds == {"f1", "f2"}
\* values of str(uuid.uuid4())[:8]
UuidSlugs == {<<"u", "1">>}

\* [^\w\s-] keeps word characters, white space and "-" (flow_store.py 21)
IsSpace(c) == c = " "
IsWord(c) == c \in {"a", "b", "f", "l", "m", "o", "w", "y", "F", "M", "_"}
KeptInSlug(c) == IsWord(c) \/ IsSpace(c) \/ c = "-"

RECURSIVE RemoveOthers(_)
RemoveOthers(s) ==
    IF s = <<>> THEN <<>>
    ELSE (IF KeptInSlug(Head(s)) THEN <<Head(s)>> ELSE <<>>) \o RemoveOthers(Tail(s))

RECURSIVE LStrip(_)
LStrip(s) == IF s # <<>> /\ IsSpace(Head(s)) THEN LStrip(Tail(s)) ELSE s
RECURSIVE RStrip(_)
RStrip(s) ==
    IF s # <<>> /\ IsSpace(s[Len(s)]) THEN RStrip(SubSeq(s, 1, Len(s) - 1)) ELSE s
\* str.strip()
StripSpaces(s) == RStrip(LStrip(s))

LowerChar(c) == IF c = "F" THEN "f" ELSE IF c = "M" THEN "m" ELSE c
\* str.lower()
LowerText(s) == [i \in 1..Len(s) |-> LowerChar(s[i])]

\* re.sub(r"[-\s]+", "-", s) (flow_store.py 22)
RECURSIVE Hyphenate(_)
Hyphenate(s) ==
    IF s = <<>> THEN <<>>
    ELSE IF Head(s) = "-" \/ IsSpace(Head(s))
    THEN IF Len(s) > 1 /\ (s[2] = "-" \/ IsSpace(s[2]))
         THEN Hyphenate(Tail(s))
         ELSE <<"-">> \o Hyphenate(Tail(s))
    ELSE <<Head(s)>> \o Hyphenate(Tail(s))

\* the slug the name normalizes to, "" when nothing is left
NormalizedName(name) == Hyphenate(LowerText(StripSpaces(RemoveOthers(name))))

\* uuid.uuid4() is reached only when the name normalizes to nothing
Fallbacks(name) == IF NormalizedName(name) = <<>> THEN UuidSlugs ELSE {<<>>}

\* _make_slug (flow_store.py 19-22); uuid is what uuid.uuid4() returns if asked
make_slug(name, uuid) ==
    IF NormalizedName(name) # <<>> THEN NormalizedName(name) ELSE uuid

\* json.dumps(body.enabled_tools) (flow_store.py 91, 180)
DumpTools(tools) == [json |-> "array", items |-> tools]
\* json.loads(enabled_tools) when the column comes back as str (flow_store.py 247-249)
LoadTools(col) == col.items

NoPrompt == [t |-> "None"]
PromptText(s) == [t |-> "str", s |-> s]

\* FlowCreate bodies: name has 1 to 200 characters, the other fields are free
Body(name, source, prompt, tools, model) ==
    [name |-> name, graph_source_id |-> source, system_prompt |-> prompt,
     enabled_tools |-> tools, model_id |-> model]
\* ch * n
Run(ch, n) == [ch |-> ch, n |-> n]
Bodies ==
    { Body(<<" ", "M", "y", " ", "-", " ", "F", "l", "o", "w", "!", " ">>, Run("d", 7),
           NoPrompt, <<"get_schema", "find_paths">>, Run("m", 6)),
      Body(<<"!", "?">>, Run("g", SourceWidth + 1), PromptText("p"), <<>>,
           Run("n", ModelWidth)) }

\* what the server is set to do with a value wider than its column: refuse
\* the statement, or cut the value
SqlModes == {"strict", "lenient"}

TooWide(body) ==
    \/ Len(body.name) > NameWidth
    \/ body.graph_source_id.n > SourceWidth
    \/ body.model_id.n > ModelWidth

\* a value cut to the width of its column
Cut(s, width) == IF Len(s) > width THEN SubSeq(s, 1, width) ELSE s
CutRun(r, width) == Run(r.ch, Min(r.n, width))

\* DATETIME column: fractional seconds are rounded
Stored(now) == (now + 1) \div 2

\* the content columns an INSERT or UPDATE writes (flow_store.py 81-97, 166-183)
ContentColumns(body, slug) ==
    [name |-> Cut(body.name, NameWidth),
     graph_source_id |-> CutRun(body.graph_source_id, SourceWidth),
     system_prompt |-> body.system_prompt,
     enabled_tools |-> DumpTools(body.enabled_tools),
     model_id |-> CutRun(body.model_id, ModelWidth),
     slug |-> Cut(slug, NameWidth)]

\* the row INSERT stores (flow_store.py 81-97)
InsertedRow(body, slug, now) ==
    [content |-> ContentColumns(body, slug), published |-> FALSE,
     created_at |-> Stored(now), updated_at |-> Stored(now)]

\* the content is written and the flow is taken offline
UpdatedRowUnpublishes(row, body, slug, now) ==
    [row EXCEPT !.content = ContentColumns(body, slug), !.published = FALSE,
                !.updated_at = Stored(now)]

\* UPDATE flows SET name = ..., updated_at = ... (flow_store.py 166-183)
UpdatedRow(row, body, slug, now) ==
    [row EXCEPT !.content = ContentColumns(body, slug), !.updated_at = Stored(now)]

\* UPDATE flows SET published = TRUE, updated_at = ... (flow_store.py 200-203)
PublishedRow(row, now) == [row EXCEPT !.published = TRUE, !.updated_at = Stored(now)]

\* only the timestamp is written
UnpublishedRowKeepsFlag(row, now) == [row EXCEPT !.updated_at = Stored(now)]

\* UPDATE flows SET published = FALSE, updated_at = ... (flow_store.py 218-221)
UnpublishedRow(row, now) == [row EXCEPT !.published = FALSE, !.updated_at = Stored(now)]

\* datetime.isoformat()
IsoFormat(t) == [iso |-> t]

\* _row_to_response (flow_store.py 242-273)
row_to_response(id, row) ==
    [id |-> id,
     name |-> row.content.name,
     graph_source_id |-> row.content.graph_source_id,
     system_prompt |-> row.content.system_prompt,
     enabled_tools |-> LoadTools(row.content.enabled_tools),
     model_id |-> row.content.model_id,
     published |-> row.published,
     slug |-> row.content.slug,
     created_at |-> IsoFormat(row.created_at),
     updated_at |-> IsoFormat(row.updated_at)]

NoneResponse == [id |-> "None"]

\* FlowStore.get (flow_store.py 116-127) on table t
get_result(t, id) == IF id \in DOMAIN t THEN row_to_response(id, t[id]) ELSE NoneResponse

\* cursor.rowcount of an UPDATE ... WHERE id: the rows whose values changed
rowcount(t, id, newRow) == IF id \in DOMAIN t /\ newRow # t[id] THEN 1 ELSE 0

\* the table with one row replaced or added
Put(t, id, row) == [k \in DOMAIN t \cup {id} |-> IF k = id THEN row ELSE t[k]]
\* the table without one row
Without(t, id) == [k \in DOMAIN t \ {id} |-> t[k]]
NoFlows == <<>>

\* the table is empty, nothing has been called
EmptyStore ==
    /\ flows = NoFlows
    /\ clock = 0
    /\ flowOp = [op |-> "none"]

\* the store of a server in strict mode (the MySQL default)
InitFlows ==
    /\ EmptyStore
    /\ sql_mode = "strict"

\* what no FlowStore call touches
flowFrame == <<agentVars, schemaVars, threadVars, toolVars, graphVars, slimVars, sugVars, sql_mode>>

\* what the database does during one call: it works, the connection of the
\* statement fails, or the connection of the closing self.get() fails
DbOutcomes == {"ok", "connect_fails", "get_fails"}

\* the statement is refused because a value is wider than its column
Refused(body) == TooWide(body) /\ sql_mode = "strict"

\* the exception of a statement that did not run
Failure(body, db) ==
    IF db = "connect_fails" THEN "OperationalError"
    ELSE IF Refused(body) THEN "DataError"
    ELSE "none"

\* what a call whose statement ran gives back: self.get(flow_id), or its failure
Closing(t, id, db) ==
    IF db = "get_fails" THEN [raised |-> "OperationalError"]
    ELSE [raised |-> "none", returned |-> get_result(t, id)]

\* the wall clock advances by half a second
tick ==
    /\ clock < MaxClock
    /\ clock' = clock + 1
    /\ UNCHANGED <<flows, flowOp, flowFrame>>

\* FlowStore.create(body) (flow_store.py 73-114)
flow_create(body, fid, uuid, db) ==
    /\ fid \notin DOMAIN flows
    /\ db # "get_fails"
    /\ LET slug == make_slug(body.name, uuid)
           row == InsertedRow(body, slug, clock)
       IN IF db = "connect_fails" \/ Refused(body)
          THEN /\ flowOp' = [op |-> "create", id |-> fid,
                             raised |-> Failure(body, db)]
               /\ UNCHANGED flows
          ELSE /\ flows' = Put(flows, fid, row)
               /\ flowOp' = [op |-> "create", id |-> fid, raised |-> "none",
                             returned |-> [row_to_response(fid, row) EXCEPT
                                              !.name = body.name,
                                              !.graph_source_id = body.graph_source_id,
                                              !.model_id = body.model_id,
                                              !.created_at = IsoFormat(clock),
                                              !.updated_at = IsoFormat(clock)]]
    /\ UNCHANGED <<clock, flowFrame>>

\* FlowStore.get(flow_id) (flow_store.py 116-127)
flow_get(id, db) ==
    /\ db # "get_fails"
    /\ flowOp' =
          [op |-> "get", id |-> id,
           afterUpdate |-> /\ flowOp.op = "update"
                           /\ flowOp.id = id
                           /\ flowOp.existed
                           /\ flowOp.raised # "OperationalError"
                           /\ db = "ok"] @@
          (IF flowOp.op = "update"
           THEN [body |-> flowOp.body, slug |-> flowOp.slug] ELSE <<>>) @@
          (IF db = "ok"
           THEN [raised |-> "none", returned |-> get_result(flows, id)]
           ELSE [raised |-> "OperationalError"])
    /\ UNCHANGED <<flows, clock, flowFrame>>

\* FlowStore.update(flow_id, body) (flow_store.py 158-192)
flow_update(id, body, uuid, db) ==
    LET slug == make_slug(body.name, uuid)
        newRow == UpdatedRow(flows[id], body, slug, clock)
        ran == db # "connect_fails" /\ ~Refused(body)
        changed == ran /\ id \in DOMAIN flows /\ rowcount(flows, id, newRow) = 1
        after == IF changed THEN Put(flows, id, newRow) ELSE flows
    IN /\ flows' = after
       /\ flowOp' =
             [op |-> "update", id |-> id, body |-> body, slug |-> slug,
              existed |-> id \in DOMAIN flows, ran |-> ran] @@
             (IF ~ran THEN [raised |-> Failure(body, db)]
              ELSE IF ~changed THEN [raised |-> "none", returned |-> NoneResponse]
              ELSE Closing(after, id, db))
       /\ UNCHANGED <<clock, flowFrame>>

\* FlowStore.publish(flow_id) (flow_store.py 194-210)
flow_publish(id, db) ==
    LET newRow == PublishedRow(flows[id], clock)
        ran == db # "connect_fails"
        changed == ran /\ id \in DOMAIN flows /\ rowcount(flows, id, newRow) = 1
        after == IF changed THEN Put(flows, id, newRow) ELSE flows
    IN /\ flows' = after
       /\ flowOp' =
             [op |-> "publish", id |-> id, existed |-> id \in DOMAIN flows, ran |-> ran] @@
             (IF id \in DOMAIN flows THEN [before |-> flows[id].published] ELSE <<>>) @@
             (IF ~ran THEN [raised |-> "OperationalError"]
              ELSE IF ~changed THEN [raised |-> "none", returned |-> NoneResponse]
              ELSE Closing(after, id, db))
       /\ UNCHANGED <<clock, flowFrame>>

\* FlowStore.unpublish(flow_id) (flow_store.py 212-228)
flow_unpublish(id, db) ==
    LET newRow == UnpublishedRow(flows[id], clock)
        ran == db # "connect_fails"
        changed == ran /\ id \in DOMAIN flows /\ rowcount(flows, id, newRow) = 1
        after == IF changed THEN Put(flows, id, newRow) ELSE flows
        afterPublish == /\ flowOp.op = "publish"
                        /\ flowOp.id = id
                        /\ flowOp.existed
                        /\ flowOp.ran
                        /\ ran
    IN /\ flows' = after
       /\ flowOp' =
             [op |-> "unpublish", id |-> id, existed |-> id \in DOMAIN flows, ran |-> ran,
              afterPublish |-> afterPublish] @@
             (IF afterPublish THEN [original |-> flowOp.before] ELSE <<>>) @@
             (IF ~ran THEN [raised |-> "OperationalError"]
              ELSE IF ~changed THEN [raised |-> "none", returned |-> NoneResponse]
              ELSE Closing(after, id, db))
       /\ UNCHANGED <<clock, flowFrame>>

\* FlowStore.delete(flow_id) (flow_store.py 230-240)
flow_delete(id, db) ==
    /\ db # "get_fails"
    /\ IF db = "connect_fails"
       THEN /\ flowOp' = [op |-> "delete", id |-> id, raised |-> "OperationalError"]
            /\ UNCHANGED flows
       ELSE /\ flows' = Without(flows, id)
            /\ flowOp' = [op |-> "delete", id |-> id, raised |-> "none",
                          returned |-> id \in DOMAIN flows]
    /\ UNCHANGED <<clock, flowFrame>>


\* the ways to put the ids of S in a row
OrdersOf(S) ==
    { s \in [1..Cardinality(S) -> S] : \A i, j \in 1..Cardinality(S) : i # j => s[i] # s[j] }

\* the rows are listed oldest first
OldestFirst(t, order) ==
    \A i, j \in 1..Len(order) : i < j => t[order[i]].updated_at <= t[order[j]].updated_at

\* ORDER BY updated_at DESC: rows of equal updated_at come in any order
NewestFirst(t, order) ==
    \A i, j \in 1..Len(order) : i < j => t[order[i]].updated_at >= t[order[j]].updated_at

\* WHERE published = TRUE, or no WHERE clause (flow_store.py 147-152)
Selected(t, published_only) ==
    IF published_only THEN { id \in DOMAIN t : t[id].published } ELSE DOMAIN t

\* the row orders the SELECT of list_all may deliver
ListOrders(t, published_only) ==
    { order \in OrdersOf(Selected(t, published_only)) : NewestFirst(t, order) }

\* FlowStore.list_all(published_only) (flow_store.py 142-156)
flow_list_all(published_only, db) ==
    /\ db # "get_fails"
    /\ IF db = "connect_fails"
       THEN flowOp' = [op |-> "list_all", id |-> "None", published_only |-> published_only,
                       raised |-> "OperationalError"]
       ELSE \E order \in ListOrders(flows, published_only) :
               flowOp' = [op |-> "list_all", id |-> "None",
                          published_only |-> published_only, raised |-> "none",
                          returned |-> [i \in 1..Len(order) |->
                                           row_to_response(order[i], flows[order[i]])]]
    /\ UNCHANGED <<flows, clock, flowFrame>>

\* the slugs asked for: one of a name, one from uuid4, one no flow has
SlugsAsked ==
    ({ NormalizedName(b.name) : b \in Bodies } \cup UuidSlugs \cup {<<"x">>}) \ {<<>>}

\* the rows WHERE slug = %s matches
WithSlug(t, slug) == { id \in DOMAIN t : t[id].content.slug = slug }

\* FlowStore.get_by_slug(slug) (flow_store.py 129-140); fetchone takes any one of
\* the matching rows
flow_get_by_slug(slug, db) ==
    /\ db # "get_fails"
    /\ IF db = "connect_fails"
       THEN flowOp' = [op |-> "get_by_slug", id |-> "None", slug |-> slug,
                       raised |-> "OperationalError"]
       ELSE IF WithSlug(flows, slug) = {}
       THEN flowOp' = [op |-> "get_by_slug", id |-> "None", slug |-> slug,
                       raised |-> "none", returned |-> NoneResponse]
       ELSE \E id \in WithSlug(flows, slug) :
               flowOp' = [op |-> "get_by_slug", id |-> "None", slug |-> slug,
                          raised |-> "none", returned |-> row_to_response(id, flows[id])]
    /\ UNCHANGED <<flows, clock, flowFrame>>
(***************************************************************************)
(* schema_service.py: SchemaService.get_schema_summary.  A report is the   *)
(* sequence of its lines; a line is its text's parts.                      *)
(***************************************************************************)
PatternLimit == 50
KeyLimit == 30

\* d.get(key, default) of a schema document
GetOr(doc, key, default) == IF key \in doc.present THEN doc[key] ELSE default

\* counts.get(name, 0) of a dict given as a set of <<name, count>> pairs
CountOf(counts, name) ==
    IF \E p \in counts : p[1] = name THEN (CHOOSE p \in counts : p[1] = name)[2] ELSE 0

NotAvailable == [t |-> "text", s |-> "Schema not available. Use get_schema tool to fetch it."]
EmptySchemaText == [t |-> "text", s |-> "Empty schema."]
Report(lines) == [t |-> "report", lines |-> lines]

Heading(s) == [line |-> "heading", s |-> s]
Blank == [line |-> "blank"]
LabelLine(label, count) == [line |-> "label", label |-> label, count |-> count]
TypeLine(rt, count) == [line |-> "type", rel_type |-> rt, count |-> count]
PatternLine(p) ==
    [line |-> "pattern",
     from_label |-> GetOr(p, "from_label", "?"),
     rel_type |-> GetOr(p, "rel_type", "?"),
     to_label |-> GetOr(p, "to_label", "?"),
     count |-> GetOr(p, "count", 0)]
\* ", ".join(keys) + ("..." if more else "")
KeysLine(keys, more) == [line |-> "keys", keys |-> keys, ellipsis |-> more]

\* lines 48-54
LabelsSection(doc) ==
    LET node_labels == GetOr(doc, "node_labels", <<>>)
        node_counts == GetOr(doc, "node_counts", {})
    IN IF node_labels # <<>>
       THEN <<Heading("## Node Labels (with counts)")>> \o
            [i \in 1..Len(node_labels) |-> LabelLine(node_labels[i], CountOf(node_counts, node_labels[i]))]
       ELSE <<>>

\* lines 57-64
TypesSection(doc) ==
    LET rel_types == GetOr(doc, "relationship_types", <<>>)
        rel_counts == GetOr(doc, "relationship_counts", {})
    IN IF rel_types # <<>>
       THEN <<Blank, Heading("## Relationship Types (with counts)")>> \o
            [i \in 1..Len(rel_types) |-> TypeLine(rel_types[i], CountOf(rel_counts, rel_types[i]))]
       ELSE <<>>

\* every pattern is listed
AllPatterns(patterns) == patterns

\* patterns[:50] (line 71)
FirstPatterns(patterns) == SubSeq(patterns, 1, Min(Len(patterns), PatternLimit))

\* lines 67-76
PatternsSection(doc) ==
    LET patterns == GetOr(doc, "relationship_patterns", <<>>)
    IN IF patterns # <<>>
       THEN <<Blank, Heading("## Relationship Patterns (from -[type]-> to)")>> \o
            [i \in 1..Len(FirstPatterns(patterns)) |-> PatternLine(FirstPatterns(patterns)[i])]
       ELSE <<>>

\* lines 79-83
KeysSection(doc) ==
    LET prop_keys == GetOr(doc, "property_keys", <<>>)
    IN IF prop_keys # <<>>
       THEN <<Blank, Heading("## Property Keys (available on nodes/relationships)"),
              KeysLine(SubSeq(prop_keys, 1, Min(Len(prop_keys), KeyLimit)),
                       Len(prop_keys) > KeyLimit)>>
       ELSE <<>>

\* an empty schema and a schema without sections are told in the same words
summary_of_one_text(schema) ==
    LET lines == LabelsSection(schema) \o TypesSection(schema) \o PatternsSection(schema)
                 \o KeysSection(schema)
    IN IF ~Truthy(schema) \/ lines = <<>> THEN NotAvailable ELSE Report(lines)

\* get_schema_summary after schema = cls.get_schema() (lines 42-85)
summary_of(schema) ==
    LET lines == LabelsSection(schema) \o TypesSection(schema) \o PatternsSection(schema)
                 \o KeysSection(schema)
    IN IF ~Truthy(schema) THEN NotAvailable
       ELSE IF lines # <<>> THEN Report(lines) ELSE EmptySchemaText

\* the schema documents the graph database answers with
Pattern(i) ==
    IF i = 1 THEN [present |-> {"rel_type"}, rel_type |-> "MADE"]
    ELSE [present |-> {"from_label", "rel_type", "to_label", "count"},
          from_label |-> "Person", rel_type |-> "MADE", to_label |-> "Decision", count |-> i]
Patterns(n) == [i \in 1..n |-> Pattern(i)]
Keys(n) == [i \in 1..n |-> i]

FieldChoices ==
    [node_labels : {<<>>, <<"Person">>, <<"Person", "Decision">>},
     node_counts : {{}, {<<"Person", 5>>}},
     relationship_types : {<<>>, <<"MADE">>},
     relationship_counts : {{<<"MADE", 2>>}},
     relationship_patterns : {<<>>, Patterns(PatternLimit), Patterns(PatternLimit + 1)},
     property_keys : {<<>>, Keys(KeyLimit), Keys(KeyLimit + 1)}]

SummaryKeys == {"node_labels", "node_counts", "relationship_types", "relationship_counts",
                "relationship_patterns", "property_keys"}

\* a document holds some of the keys; an absent key is not told apart from one
\* left out of `present`
KeySets ==
    { {}, {"node_counts"}, {"node_labels"}, {"node_labels", "node_counts"},
      {"relationship_types"}, {"relationship_patterns"}, {"property_keys"},
      {"node_labels", "relationship_patterns", "property_keys"}, SummaryKeys }

SummaryDocs ==
    { [f \in {"present"} \cup ks |-> IF f = "present" THEN ks ELSE c[f]] :
          c \in FieldChoices, ks \in KeySets }

SummaryFetches == {[ok |-> FALSE]} \cup {[ok |-> TRUE, doc |-> d] : d \in SummaryDocs}

NoSummary == [called |-> FALSE]

InitSummary == summaryOut = NoSummary

\* SchemaService.get_schema_summary() (schema_service.py 38-85)
get_schema_summary(out) ==
    LET r == get_schema_effect(_cache, _cache_time, fetches, out)
    IN /\ Fetches(_cache, out) => fetches < MaxFetches
       /\ _cache' = r.cache
       /\ _cache_time' = r.time
       /\ fetches' = r.fetches
       /\ schemaOp' = [op |-> "get_schema", raised |-> r.raised, returned |-> r.value,
                       contacted |-> r.contacted,
                       before |-> _cache, beforeTime |-> _cache_time]
       /\ summaryOut' = IF r.raised # "none"
                        THEN [called |-> TRUE, raised |-> r.raised]
                        ELSE [called |-> TRUE, raised |-> "none", schema |-> r.value,
                              returned |-> summary_of(r.value)]
       /\ UNCHANGED priorOnFailure
       /\ UNCHANGED <<agentVars, threadVars, toolVars, graphVars, slimVars, flowVars,
                      parseVars, genVars>>
(***************************************************************************)
(* suggestions_service.py.  A text is the sequence of its tokens: the      *)
(* characters [ ] " , space a 7, the three backticks of a code fence and   *)
(* the word json after a fence, each fence and each json taken as one      *)
(* token.                                                                  *)
(***************************************************************************)
MaxItems == 4      \* entries of the arrays the model answers with

QuestionCap == 80
QuestionCount == 3
max_retries == 3

\* the tokens ``` and json, the double and the single quote
Fence == "FENCE"
Tag == "json"
Quote == "QUOTE"
Apostrophe == "APOS"

\* \s
IsWs(c) == c = " "

\* the least number of a non-empty set of numbers
Least(S) == CHOOSE x \in S : \A y \in S : x <= y

\* first position from i on that holds no white space, Len(s) + 1 if none
SkipWs(s, i) == Least({ j \in i..Len(s) : ~IsWs(s[j]) } \cup {Max(i, Len(s) + 1)})

\* first position from i on that holds token c, Len(s) + 1 if none
Find(s, c, i) == Least({ j \in i..Len(s) : s[j] = c } \cup {Max(i, Len(s) + 1)})

\* JSON values: strings, integers written with the digit 7, arrays
JStr(chars) == [t |-> "str", s |-> chars]
JInt(digits) == [t |-> "int", digits |-> digits]
JList(items) == [t |-> "list", items |-> items]

DecodeError == [ok |-> FALSE]
Decoded(v, next) == [ok |-> TRUE, val |-> v, next |-> next]

\* the digits that follow one another from position i on
CountDigits(s, i) == Least({ j \in i..Len(s) : s[j] # "7" } \cup {Max(i, Len(s) + 1)}) - i

\* json.loads, the scanner: one value starting at position i
RECURSIVE ScanValue(_, _)
RECURSIVE ScanItems(_, _, _)
ScanValue(s, i) ==
    IF i > Len(s) THEN DecodeError
    ELSE IF s[i] = Quote
    THEN LET j == Find(s, Quote, i + 1)
         IN IF j > Len(s) THEN DecodeError
            ELSE Decoded(JStr(SubSeq(s, i + 1, j - 1)), j + 1)
    ELSE IF s[i] = "7"
    THEN Decoded(JInt(CountDigits(s, i)), i + CountDigits(s, i))
    ELSE IF s[i] = "["
    THEN LET j == SkipWs(s, i + 1)
         IN IF j <= Len(s) /\ s[j] = "]" THEN Decoded(JList(<<>>), j + 1)
            ELSE ScanItems(s, j, <<>>)
    ELSE DecodeError

\* the items of an array after "[", those in acc already read
ScanItems(s, i, acc) ==
    LET v == ScanValue(s, i)
    IN IF ~v.ok THEN DecodeError
       ELSE LET j == SkipWs(s, v.next)
            IN IF j > Len(s) THEN DecodeError
               ELSE IF s[j] = "]" THEN Decoded(JList(Append(acc, v.val)), j + 1)
               ELSE IF s[j] = "," THEN ScanItems(s, SkipWs(s, j + 1), Append(acc, v.val))
               ELSE DecodeError

\* json.loads(s): the value, or JSONDecodeError
loads(s) ==
    LET v == ScanValue(s, SkipWs(s, 1))
    IN IF v.ok /\ SkipWs(s, v.next) = Len(s) + 1 THEN [ok |-> TRUE, val |-> v.val]
       ELSE DecodeError

\* the separator of repr(list)
RECURSIVE Joined(_, _)
Joined(parts, sep) ==
    IF parts = <<>> THEN <<>>
    ELSE IF Len(parts) = 1 THEN parts[1]
    ELSE parts[1] \o sep \o Joined(Tail(parts), sep)

\* str(q) of a decoded value; a string inside a list is written in quotes
RECURSIVE PyRepr(_)
PyRepr(v) ==
    IF v.t = "str" THEN <<Apostrophe>> \o v.s \o <<Apostrophe>>
    ELSE IF v.t = "int" THEN Repeat("7", v.digits)
    ELSE <<"[">> \o Joined([i \in 1..Len(v.items) |-> PyRepr(v.items[i])], <<",", " ">>)
         \o <<"]">>
\* str(q)
str_of(v) == IF v.t = "str" THEN v.s ELSE PyRepr(v)

\* s[:n]
Prefix(s, n) == SubSeq(s, 1, Min(Len(s), n))

\* No questions
NoQuestions == [t |-> "None"]
Questions(qs) == [t |-> "list", qs |-> qs]

\* every entry is kept whole
FirstQuestionsUncut(items) ==
    LET kept == Prefix(items, QuestionCount)
    IN [i \in 1..Len(kept) |-> str_of(kept[i])]

\* [str(q)[:80] for q in parsed[:3]] (suggestions_service.py 54, 63, 72)
FirstQuestions(items) ==
    LET kept == Prefix(items, QuestionCount)
    IN [i \in 1..Len(kept) |-> Prefix(str_of(kept[i]), QuestionCap)]

\* one try of _parse_questions_from_text on a candidate text: the questions,
\* or nothing when it is no JSON, no list or an empty list (51-56)
TryLoads(s) ==
    LET parsed == loads(s)
    IN IF parsed.ok /\ parsed.val.t = "list" /\ Len(parsed.val.items) >= 1
       THEN Questions(FirstQuestions(parsed.val.items))
       ELSE NoQuestions

\* str.strip()
StripWs(s) ==
    LET inked == { j \in 1..Len(s) : ~IsWs(s[j]) }
    IN IF inked = {} THEN <<>>
       ELSE SubSeq(s, Least(inked), CHOOSE x \in inked : \A y \in inked : x >= y)

NoMatch == [found |-> FALSE]
Match(s, from, to) == [found |-> TRUE, group |-> SubSeq(s, from, to)]

\* the shortest \[[\s\S]*?\] from the "[" at p that is followed by \s*```:
\* q runs over the positions after p
FencedEnd(s, p, q) ==
    Least({ j \in q..Len(s) :
              s[j] = "]" /\ SkipWs(s, j + 1) <= Len(s) /\ s[SkipWs(s, j + 1)] = Fence }
          \cup {Len(s) + 1})

\* ```(?:json)?\s*(\[[\s\S]*?\])\s*``` tried at the fence at position i
CodeMatchAt(s, i) ==
    LET afterTag == IF i + 1 <= Len(s) /\ s[i + 1] = Tag THEN i + 2 ELSE i + 1
        p == SkipWs(s, afterTag)
    IN IF s[i] = Fence /\ p <= Len(s) /\ s[p] = "[" /\ FencedEnd(s, p, p + 1) <= Len(s)
       THEN Match(s, p, FencedEnd(s, p, p + 1))
       ELSE NoMatch

\* re.search(r"```(?:json)?\s*(\[[\s\S]*?\])\s*```", text): the leftmost match (58)
CodeSearch(s, i) ==
    LET starts == { j \in i..Len(s) : s[j] = Fence /\ CodeMatchAt(s, j).found }
    IN IF starts = {} THEN NoMatch ELSE CodeMatchAt(s, Least(starts))

\* re.search(r"\[[\s\S]*?\]", text): from the first "[" to the next "]" (67)
ArraySearch(s) ==
    LET p == Find(s, "[", 1)
        q == Find(s, "]", p + 1)
    IN IF p <= Len(s) /\ q <= Len(s) THEN Match(s, p, q) ELSE NoMatch

\* _parse_questions_from_text (suggestions_service.py 46-75)
parse_questions_from_text(text) ==
    IF StripWs(text) = <<>> THEN NoQuestions
    ELSE IF TryLoads(StripWs(text)) # NoQuestions THEN TryLoads(StripWs(text))
    ELSE IF CodeSearch(text, 1).found /\ TryLoads(CodeSearch(text, 1).group) # NoQuestions
    THEN TryLoads(CodeSearch(text, 1).group)
    ELSE IF ArraySearch(text).found THEN TryLoads(ArraySearch(text).group)
    ELSE NoQuestions

\* json.dumps of a value the scanner reads back
RECURSIVE Render(_)
Render(v) ==
    IF v.t = "str" THEN <<Quote>> \o v.s \o <<Quote>>
    ELSE IF v.t = "int" THEN Repeat("7", v.digits)
    ELSE <<"[">> \o Joined([i \in 1..Len(v.items) |-> Render(v.items[i])], <<",", " ">>)
         \o <<"]">>

\* what the model answers with: short and long questions, a question that
\* quotes a bracket before a code fence, a number
LongQuestion == Repeat("a", QuestionCap + 1)
Entries == { JStr(<<"a">>), JStr(LongQuestion), JStr(<<"]", Fence>>), JInt(1) }
PlainEntries == { JStr(<<"a">>), JStr(LongQuestion) }
ArraysOf(E) == UNION { [1..n -> E] : n \in 0..MaxItems }

\* the ways a model writes its array: alone, in a code block with or without
\* the json tag, inside a sentence, in a code block after another array
Wraps == {"bare", "spaced", "fenced", "fenced_json", "sentence", "after_array"}
Wrapped(arr, wrap) ==
    LET a == Render(JList(arr))
    IN CASE wrap = "bare" -> a
         [] wrap = "spaced" -> <<" ">> \o a \o <<" ">>
         [] wrap = "fenced" -> <<Fence>> \o a \o <<Fence>>
         [] wrap = "fenced_json" -> <<Fence, Tag, " ">> \o a \o <<" ", Fence>>
         [] wrap = "sentence" -> <<"a", " ">> \o a \o <<" ", "a">>
         [] wrap = "after_array" -> <<"[", "7", "]", " ", Fence>> \o a \o <<Fence>>

\* texts that hold no array: empty, blank, a word, a string, a number, an
\* array that is not closed, a closed bracket pair around a word
OtherTexts ==
    { <<>>, <<" ">>, <<"a">>, <<Quote, "a", Quote>>, <<"7">>,
      <<"[", Quote, "a", Quote>>, <<"[", "a", "]">>, <<Fence, "[", Quote, "a">> }

ParseInputs ==
    { [wrap |-> w, array |-> arr, text |-> Wrapped(arr, w)] : w \in Wraps, arr \in ArraysOf(Entries) }
    \cup { [wrap |-> "none", text |-> t] : t \in OtherTexts }

NotParsed == [t |-> "not called"]

\* _parse_questions_from_text(text)
call_parse_questions_from_text ==
    /\ parseOut = NotParsed
    /\ parseOut' = parse_questions_from_text(parseIn.text)
    /\ UNCHANGED <<parseIn, genVars, summaryVars, agentVars, schemaVars, threadVars, toolVars,
                   graphVars, slimVars, flowVars>>

\* no text has been given to the parser
InitParse ==
    /\ parseIn = [wrap |-> "none", text |-> <<>>]
    /\ parseOut = NotParsed

\* DEFAULT_QUESTIONS (suggestions_service.py 18-22)
DefaultList == << <<"d", "1">>, <<"d", "2">>, <<"d", "3">> >>

\* response.json(): Anthropic-style and OpenAI-style envelopes
Absent == [t |-> "absent"]
TextBlock(text) == [t |-> "dict", type |-> "text", text |-> text]
ThinkingBlock == [t |-> "dict", type |-> "thinking", text |-> <<"a">>]
ContentOf(blocks) == [t |-> "list", items |-> blocks]
ChoicesOf(text) == [t |-> "list", items |-> <<[t |-> "dict", message |-> [t |-> "dict", content |-> text]]>>]
Envelope(content, choices) == [t |-> "dict", content |-> content, choices |-> choices]
NotADict == [t |-> "list"]

\* first block of type text with a non-empty text (28-34)
RECURSIVE FirstText(_)
FirstText(blocks) ==
    IF blocks = <<>> THEN <<>>
    ELSE IF Head(blocks).t = "dict" /\ Head(blocks).type = "text" /\ Head(blocks).text # <<>>
    THEN Head(blocks).text
    ELSE FirstText(Tail(blocks))

\* choices[0].message.content (36-42)
ChoiceText(choices) ==
    IF choices.t = "list" /\ choices.items # <<>> /\ choices.items[1].t = "dict"
       /\ choices.items[1].message.t = "dict"
    THEN choices.items[1].message.content
    ELSE <<>>

\* _extract_text_from_response (25-43); data.get fails on a value that is no dict
extract_text_from_response(data) ==
    IF data.t # "dict" THEN [raised |-> TRUE]
    ELSE LET fromContent == IF data.content.t = "list" THEN FirstText(data.content.items) ELSE <<>>
         IN [raised |-> FALSE,
             text |-> IF fromContent # <<>> THEN fromContent ELSE ChoiceText(data.choices)]

\* the texts the model answers with in a call of generate_suggested_questions
GenTexts ==
    { Wrapped(arr, "bare") : arr \in ArraysOf(PlainEntries) }
    \cup { Wrapped(<<JStr(<<"a">>), JInt(1)>>, "fenced_json"), <<"a">>, <<" ">> }

Envelopes ==
    { Envelope(ContentOf(<<TextBlock(t)>>), Absent) : t \in GenTexts }
    \cup { Envelope(ContentOf(<<ThinkingBlock, TextBlock(<<>>), TextBlock(Wrapped(<<JStr(<<"a">>)>>, "bare"))>>), Absent),
           Envelope(Absent, ChoicesOf(Wrapped(<<JStr(<<"a">>), JStr(<<"a">>)>>, "bare"))),
           Envelope(Absent, ChoicesOf(<<>>)),
           Envelope(ContentOf(<<TextBlock(<<>>)>>), Absent),
           Envelope(Absent, Absent),
           NotADict }

\* what SchemaService.get_schema_summary() does for the call (81-87)
SummaryOutcomes ==
    {[raised |-> TRUE]} \cup
    {[raised |-> FALSE, text |-> x] : x \in {NotAvailable, EmptySchemaText, summary_of(PersonSchema)}}
\* the text line 86 compares the summary with
UnavailableText == "Schema not available. Use get_schema tool to fetch it."
\* config.anthropic.api_key (101-102)
ApiKeys == {"", "sk-key"}
\* what one client.post does (116-131): the connection fails, the status is an
\* error, something else fails, the body is no JSON, or the body is decoded
ConnectFailures == {"ConnectError", "ConnectTimeout"}
PostFailures == ConnectFailures \cup {"HTTPStatusError", "ReadTimeout", "JSONDecodeError"}

\* a reference to the module's list, or a list made during the call
TheDefaults == [obj |-> "DEFAULT_QUESTIONS"]
NewList(qs) == [obj |-> "new", qs |-> qs]
NoResult == [obj |-> "none"]
\* the list a reference stands for
Deref(ref, defaults) == IF ref.obj = "DEFAULT_QUESTIONS" THEN defaults ELSE ref.qs

\* while len(questions) < 3: questions.append(DEFAULT_QUESTIONS[len(questions)]);
\* questions[:3] (140-142)
RECURSIVE Padded(_, _)
Padded(qs, defaults) ==
    IF Len(qs) < QuestionCount THEN Padded(Append(qs, defaults[Len(qs) + 1]), defaults)
    ELSE Prefix(qs, QuestionCount)

\* lines 131-143: what a decoded body leads to
FromBody(data, defaults) ==
    LET x == extract_text_from_response(data)
    IN IF x.raised THEN [why |-> "AttributeError", result |-> NoResult]
       ELSE IF x.text = <<>> THEN [why |-> "empty text", result |-> TheDefaults]
       ELSE LET questions == parse_questions_from_text(x.text)
            IN IF questions # NoQuestions /\ questions.qs # <<>>
               THEN [why |-> "questions", result |-> NewList(Padded(questions.qs, defaults))]
               ELSE [why |-> "unparseable", result |-> TheDefaults]

\* the call waits for a second and tries again
WaitFixed(n) == 1

\* wait = 1.0 * (attempt + 1), attempt counted from 0 (146)
Wait(n) == n + 1

\* attempt < max_retries - 1 fails (145)
LastAttempt(n) == ~(n < max_retries - 1)

genFrame == <<parseVars, summaryVars, agentVars, schemaVars, threadVars,
              toolVars, graphVars, slimVars, flowVars>>

InitGen ==
    /\ DEFAULT_QUESTIONS = DefaultList
    /\ genPc = "idle"
    /\ attempt = 0
    /\ posts = 0
    /\ sleeps = <<>>
    /\ genCase = "none"
    /\ genText = <<>>
    /\ genResult = NoResult

\* generate_suggested_questions() up to the retry loop (78-112)
gen_call(summary_outcome, api_key) ==
    /\ genPc \in {"idle", "returned", "raised"}
    /\ attempt' = 0
    /\ posts' = 0
    /\ sleeps' = <<>>
    /\ genText' = <<>>
    /\ IF summary_outcome.raised
       THEN genPc' = "returned" /\ genCase' = "schema fetch failed" /\ genResult' = TheDefaults
       ELSE IF summary_outcome.text.t = "text" /\ summary_outcome.text.s = UnavailableText
       THEN genPc' = "returned" /\ genCase' = "schema unavailable" /\ genResult' = TheDefaults
       ELSE IF api_key = ""
       THEN genPc' = "returned" /\ genCase' = "no api key" /\ genResult' = TheDefaults
       ELSE genPc' = "posting" /\ genCase' = "none" /\ genResult' = NoResult
    /\ UNCHANGED <<DEFAULT_QUESTIONS, genFrame>>

\* only the two named clauses are there
except_clause_named_only(exc) ==
    IF exc \in ConnectFailures THEN "connect"
    ELSE IF exc = "HTTPStatusError" THEN "status"
    ELSE "none"

\* the except clause that takes an exception raised in the try block (144-157)
except_clause(exc) ==
    IF exc \in ConnectFailures THEN "connect"
    ELSE IF exc = "HTTPStatusError" THEN "status"
    ELSE "generic"

\* a pass of the loop that ends in an exception (144-157)
Handled(exc) ==
    IF except_clause(exc) = "none"
    THEN /\ genPc' = "raised"
         /\ genResult' = NoResult
         /\ UNCHANGED <<sleeps, attempt>>
    ELSE IF except_clause(exc) = "connect" /\ ~LastAttempt(attempt)
    THEN /\ sleeps' = Append(sleeps, Wait(attempt))
         /\ attempt' = attempt + 1
         /\ UNCHANGED <<genPc, genResult>>
    ELSE /\ genPc' = "returned"
         /\ genResult' = TheDefaults
         /\ UNCHANGED <<sleeps, attempt>>

\* one pass of the loop whose post fails (114-131, 144-157)
gen_post_fails(failure) ==
    /\ genPc = "posting"
    /\ posts' = posts + 1
    /\ genCase' = failure
    /\ genText' = <<>>
    /\ Handled(failure)
    /\ UNCHANGED <<DEFAULT_QUESTIONS, genFrame>>

\* one pass of the loop whose post is answered with a JSON body (114-143, 155-157)
gen_post_answered(data) ==
    /\ genPc = "posting"
    /\ posts' = posts + 1
    /\ genCase' = FromBody(data, DEFAULT_QUESTIONS).why
    /\ genText' = IF extract_text_from_response(data).raised THEN <<>>
                  ELSE extract_text_from_response(data).text
    /\ IF FromBody(data, DEFAULT_QUESTIONS).why = "AttributeError"
       THEN Handled("AttributeError")
       ELSE /\ genPc' = "returned"
            /\ genResult' = FromBody(data, DEFAULT_QUESTIONS).result
            /\ UNCHANGED <<sleeps, attempt>>
    /\ UNCHANGED <<DEFAULT_QUESTIONS, genFrame>>
(***************************************************************************)
(* agent.py: slim_properties.  A string is the sequence of its characters, *)
(* a mapping a function from its keys to values.                           *)
(***************************************************************************)
MaxKeys == 2       \* keys of one property mapping

StrLimit == 200
ListLimit == 10
Ellipsis == <<".", ".", ".">>
EmbeddingKeys == {"fastrp_embedding", "reasoning_embedding", "embedding"}

StrValue(chars) == [t |-> "str", s |-> chars]
ListValue(items) == [t |-> "list", items |-> items]
TupleValue(items) == [t |-> "tuple", items |-> items]
DictValue(k, v) == [t |-> "dict", key |-> k, value |-> v]
IntValue(n) == [t |-> "int", n |-> n]
NoneValue == [t |-> "None"]

Counting(n) == [i \in 1..n |-> IntValue(i)]

AtLimit == Repeat("x", StrLimit)
PropStrings ==
    { <<"a", "b">>,
      AtLimit,
      AtLimit \o <<"x">>,
      AtLimit \o Ellipsis,
      AtLimit \o <<"y", "y", "y">> }
PropValues ==
    {StrValue(s) : s \in PropStrings} \cup
    { ListValue(Counting(ListLimit)),
      ListValue(Counting(ListLimit + 1)),
      ListValue(<<StrValue(AtLimit \o <<"x">>)>>),
      TupleValue(Counting(ListLimit + 1)),
      DictValue("bio", StrValue(AtLimit \o <<"x">>)),
      IntValue(7),
      NoneValue }
PropKeys == {"name", "tags", "embedding", "fastrp_embedding", "reasoning_embedding"}

\* the property mappings with at most MaxKeys keys
PropMaps ==
    UNION {[ks -> PropValues] : ks \in {k \in SUBSET PropKeys : Cardinality(k) <= MaxKeys}}

\* the marker goes in front of the kept characters
TruncateMarkerFirst(chars) == Ellipsis \o SubSeq(chars, 1, StrLimit)

\* value[:200] + "..." (agent.py 27)
Truncate(chars) == SubSeq(chars, 1, StrLimit) \o Ellipsis

\* the whole list is kept
TrimListKeepsAll(items) == items

\* value[:10] (agent.py 30)
TrimList(items) == SubSeq(items, 1, ListLimit)

\* the if / elif / else of the loop body (agent.py 26-32)
SlimValue(value) ==
    IF value.t = "str" /\ Len(value.s) > StrLimit THEN StrValue(Truncate(value.s))
    ELSE IF value.t = "list" /\ Len(value.items) > ListLimit
    THEN ListValue(TrimList(value.items))
    ELSE value

\* slim_properties (agent.py 17-32)
slim_properties(p) == [key \in DOMAIN p \ EmbeddingKeys |-> SlimValue(p[key])]

NotCalled == [called |-> FALSE]
Result(m) == [called |-> TRUE, value |-> m]

\* slim_properties(props) is called
call_slim_properties ==
    /\ ~slim.called
    /\ slim' = Result(slim_properties(props))
    /\ UNCHANGED <<props, reslim, graphVars, agentVars, schemaVars, threadVars, toolVars, flowVars, sugVars>>

\* slim_properties is called on the mapping it returned
call_slim_again ==
    /\ slim.called
    /\ ~reslim.called
    /\ reslim' = Result(slim_properties(slim.value))
    /\ UNCHANGED <<props, slim, graphVars, agentVars, schemaVars, threadVars, toolVars, flowVars, sugVars>>

\* the state of the library functions before any of them is applied
InitLib ==
    /\ graphOut = NotBuilt
    /\ slim = NotCalled
    /\ reslim = NotCalled
    /\ InitParse
    /\ InitGen
    /\ InitSummary

\* no library function has an input to work on
IdleLib ==
    /\ InitLib
    /\ graphIn = NoRecord
    /\ props = <<>>
    /\ InitFlows

(***************************************************************************)
(* agent.py: the six MCP tools.  A tool body either returns a payload or   *)
(* raises; the except clauses turn what it raises into an error payload.   *)
(* Only exceptions derived from Exception are modelled.                    *)
(***************************************************************************)
DefaultMaxDepth == 5
MaxDepthCap == 10

\* what the graph driver does during one tool call: everything works and a
\* record with nodes comes back, or the first thing to go wrong
DriverOutcomes ==
    {"ok", "session_raises", "run_raises", "single_raises", "no_record", "no_nodes"}
\* what the read-only gate of context_graph_client.execute_cypher decides
GateOutcomes == {"pass", "reject"}

IntArg(n) == [t |-> "int", n |-> n]
NullArg == [t |-> "null"]

\* the args dicts the runtime passes: `present` holds the keys.  Keys a tool
\* never reads are left out of its inputs.
NoArgs == [present |-> {}]
GetSchemaArgs == {NoArgs, [present |-> {"node_id"}]}
ExploreArgs == {NoArgs, [present |-> {"node_id"}]}
SearchArgs == {NoArgs, [present |-> {"label"}]}
DepthArgs == {IntArg(n) : n \in {0 - 1, 3, 10, 11}} \cup {NullArg}
FindPathsArgs ==
    {NoArgs, [present |-> {"start_id"}], [present |-> {"start_id", "end_id"}]} \cup
    {[present |-> {"start_id", "end_id", "max_depth"}, max_depth |-> m] : m \in DepthArgs}
PatternTypes == {"overview", "degree", "sample"}
PatternArgs ==
    {NoArgs} \cup
    {[present |-> {"pattern_type"}, pattern_type |-> pt] : pt \in PatternTypes \cup {"cluster"}}

Ret(payload) == [raised |-> FALSE, payload |-> payload]
Raise(exc) == [raised |-> TRUE, exc |-> exc]

\* {"content": [{"type": "text", "text": ...}]}
TextPayload(text) == [content |-> <<[type |-> "text", text |-> text]>>]
\* {"content": [{"type": "text", "text": ...}], "is_error": True}
ErrorPayload(text) ==
    [content |-> <<[type |-> "text", text |-> text]>>, is_error |-> TRUE]

\* what the agent runtime gets from a tool call: a payload, or an exception
Returned(payload) == [escaped |-> FALSE, payload |-> payload]
Escaped(exc) == [escaped |-> TRUE, exc |-> exc]

\* f"{prefix}: {str(e)}"
ErrorText(prefix, exc) == [kind |-> "message", prefix |-> prefix, detail |-> exc]
\* json.dumps(response, ...)
JsonText(tool, response) == [kind |-> "json", tool |-> tool, response |-> response]

\* try: <body> except Exception as e: return the error payload
\* (agent.py 98-102, 126-130, 215-219, 293-297, 345-349)
except_Exception(r, prefix) ==
    IF r.raised
    THEN Returned(ErrorPayload(ErrorText(prefix, r.exc)))
    ELSE Returned(r.payload)

\* the two except clauses of execute_cypher (agent.py 371-380)
except_ValueError_Exception(r) ==
    IF r.raised
    THEN IF r.exc = "ValueError"
         THEN Returned(ErrorPayload(ErrorText("Query not allowed", r.exc)))
         ELSE Returned(ErrorPayload(ErrorText("Error executing query", r.exc)))
    ELSE Returned(r.payload)

\* `with driver.session(...)`, session.run(...) and result.single() in turn
\* (agent.py 147-171, 235-252): the exception of the first that fails
DriverRaises(d) == d \in {"session_raises", "run_raises", "single_raises"}

\* result.single() of the query, when nothing raised
RecordOf(d) ==
    IF d = "no_record" THEN NoRecord
    ELSE IF d = "no_nodes" THEN [kind |-> "record", nodes |-> <<>>, rels |-> <<>>]
    ELSE [kind |-> "record",
          nodes |-> <<DriverNode("a", TRUE), DriverNode("b", TRUE)>>,
          rels |-> <<DriverRel("r1", "a", "b", TRUE), DriverRel("r2", "b", "c", TRUE)>>]

\* what context_graph_client.get_graph_data() returns, when it does not raise
GraphDataOf(d) ==
    IF d = "no_record" THEN NoRecord
    ELSE IF d = "no_nodes" THEN [kind |-> "GraphData", nodes |-> <<>>, relationships |-> <<>>]
    ELSE [kind |-> "GraphData",
          nodes |-> <<GraphNode("a"), GraphNode("b")>>,
          relationships |-> <<GraphRel("r1", "a", "b"), GraphRel("r2", "b", "c")>>]

\* the body of get_schema (agent.py 96-97), given what SchemaService.get_schema did
get_schema_body(g) ==
    IF g.raised # "none" THEN Raise(g.raised)
    ELSE Ret(TextPayload(JsonText("get_schema", g.value)))

\* the body of explore_nodes (agent.py 113-125); get_graph_data returns None
\* ("no_record"), a GraphData, or raises
explore_nodes_body(args, d) ==
    IF "node_id" \notin args.present THEN Raise("KeyError")
    ELSE IF DriverRaises(d) THEN Raise("DriverError")
    ELSE LET gd == graph_data_to_dict(GraphDataOf(d))
         IN Ret(TextPayload(JsonText("explore_nodes",
                    [graph_data |-> gd, node_count |-> Len(gd.nodes),
                     relationship_count |-> Len(gd.relationships)])))

\* the body of search_nodes (agent.py 141-214)
search_nodes_body(args, d) ==
    IF DriverRaises(d) THEN Raise("DriverError")
    ELSE IF RecordOf(d).kind = "None"
    THEN Ret(TextPayload(JsonText("search_nodes", [graph_data |-> EmptyEnvelope])))
    ELSE LET gd == search_nodes_envelope(RecordOf(d))
         IN Ret(TextPayload(JsonText("search_nodes",
                    [graph_data |-> gd, node_count |-> Len(gd.nodes),
                     relationship_count |-> Len(gd.relationships)])))

\* args.get("max_depth", 5) is passed on as it is
PathDepthUncapped(args) ==
    IF "max_depth" \notin args.present THEN IntArg(DefaultMaxDepth)
    ELSE IF args.max_depth.t # "int" THEN NullArg
    ELSE args.max_depth

\* min(args.get("max_depth", 5), 10) (agent.py 232)
PathDepth(args) ==
    IF "max_depth" \notin args.present THEN IntArg(Min(DefaultMaxDepth, MaxDepthCap))
    ELSE IF args.max_depth.t # "int" THEN NullArg
    ELSE IntArg(Min(args.max_depth.n, MaxDepthCap))

\* the body of find_paths (agent.py 230-292)
find_paths_body(args, d) ==
    IF "start_id" \notin args.present \/ "end_id" \notin args.present THEN Raise("KeyError")
    ELSE IF PathDepth(args).t # "int" THEN Raise("TypeError")
    ELSE IF DriverRaises(d) THEN Raise("DriverError")
    ELSE IF NoPathFound(RecordOf(d))
    THEN Ret(TextPayload(JsonText("find_paths",
                [paths_found |-> 0, graph_data |-> EmptyEnvelope,
                 message |-> "No path found."])))
    ELSE Ret(TextPayload(JsonText("find_paths",
                [paths_found |-> 1, path_length |-> Len(RecordOf(d).rels),
                 graph_data |-> find_paths_envelope(RecordOf(d))])))

\* the session.run calls find_paths makes, with the depth bound each is given
\* (agent.py 235-251)
find_paths_queries(args, d) ==
    IF "start_id" \notin args.present \/ "end_id" \notin args.present THEN <<>>
    ELSE IF PathDepth(args).t # "int" THEN <<>>
    ELSE IF d = "session_raises" THEN <<>>
    ELSE <<[query |-> "shortestPath", max_depth |-> PathDepth(args).n]>>

\* the session.run call search_nodes makes (agent.py 147-170)
search_nodes_queries(args, d) ==
    IF d = "session_raises" THEN <<>> ELSE <<[query |-> "match"]>>

\* args.get("pattern_type", "overview") (agent.py 308)
PatternType(args) ==
    IF "pattern_type" \in args.present THEN args.pattern_type ELSE "overview"

\* the body of analyze_patterns (agent.py 308-344), given what
\* SchemaService.get_schema does when the sample branch calls it
analyze_patterns_body(args, d, g) ==
    IF d = "session_raises" THEN Raise("DriverError")
    ELSE IF PatternType(args) = "overview"
    THEN IF DriverRaises(d) THEN Raise("DriverError")
         ELSE IF d = "no_record" THEN Raise("TypeError")
         ELSE Ret(TextPayload(JsonText("analyze_patterns", [pattern |-> "overview"])))
    ELSE IF PatternType(args) = "degree"
    THEN IF DriverRaises(d) THEN Raise("DriverError")
         ELSE Ret(TextPayload(JsonText("analyze_patterns", [pattern |-> "degree"])))
    ELSE IF PatternType(args) = "sample"
    THEN IF g.raised # "none" THEN Raise(g.raised)
         ELSE IF "node_labels" \in g.value.present /\ DriverRaises(d) THEN Raise("DriverError")
         ELSE Ret(TextPayload(JsonText("analyze_patterns", [pattern |-> "sample"])))
    ELSE Ret(ErrorPayload(JsonText("analyze_patterns",
                [error |-> "Unknown pattern_type", pattern_type |-> PatternType(args)])))

\* labels[:10] (agent.py 334)
FirstLabels(labels) == SubSeq(labels, 1, Min(Len(labels), 10))

\* the session.run calls analyze_patterns makes (agent.py 309-339)
analyze_patterns_queries(args, d, g) ==
    IF d = "session_raises" THEN <<>>
    ELSE IF PatternType(args) = "overview"
    THEN IF d \in {"run_raises", "single_raises", "no_record"}
         THEN <<[query |-> "node_counts"]>>
         ELSE <<[query |-> "node_counts"], [query |-> "rel_counts"]>>
    ELSE IF PatternType(args) = "degree" THEN <<[query |-> "distribution"]>>
    ELSE IF PatternType(args) = "sample"
    THEN IF g.raised # "none" \/ "node_labels" \notin g.value.present THEN <<>>
         ELSE IF DriverRaises(d) THEN <<[query |-> "sample"]>>
         ELSE [i \in 1..Len(FirstLabels(g.value.node_labels)) |-> [query |-> "sample"]]
    ELSE <<>>

\* the `parameters` argument: a JSON object, a list dict() accepts, a list
\* dict() refuses with ValueError or with TypeError, an empty list, a string
ParameterArgs ==
    {[t |-> "dict"], [t |-> "list", dict |-> "ok"], [t |-> "list", dict |-> "ValueError"],
     [t |-> "list", dict |-> "TypeError"], [t |-> "list", dict |-> "empty"], [t |-> "str"]}
CypherArgs ==
    {NoArgs, [present |-> {"cypher"}]} \cup
    {[present |-> {"cypher", "parameters"}, parameters |-> r] : r \in ParameterArgs} \cup
    {[present |-> {"parameters"}, parameters |-> [t |-> "list", dict |-> "ValueError"]]}

\* dict(raw_params) (agent.py 366)
dict_of(raw) ==
    IF raw.dict = "ok" THEN Ret("converted") ELSE Raise(raw.dict)

\* dict(raw_params) without the inner try
dict_or_raise(raw) == dict_of(raw)

\* try: params = dict(raw_params) except (ValueError, TypeError): params = {}
\* (agent.py 365-368)
dict_or_empty(raw) ==
    IF dict_of(raw).raised /\ dict_of(raw).exc \in {"ValueError", "TypeError"}
    THEN Ret("empty")
    ELSE dict_of(raw)

\* the params execute_cypher passes on (agent.py 360-368)
cypher_params(args) ==
    IF "parameters" \notin args.present THEN Ret("empty")
    ELSE IF args.parameters.t = "dict" THEN Ret("given")
    ELSE IF args.parameters.t = "list" /\ args.parameters.dict # "empty"
    THEN dict_or_empty(args.parameters)
    ELSE Ret("empty")

\* context_graph_client.execute_cypher: the read-only gate refuses the statement
\* with ValueError, else the query runs and returns rows or fails in the driver
client_execute_cypher(gate, d) ==
    IF gate = "reject" THEN Raise("ValueError")
    ELSE IF DriverRaises(d) THEN Raise("DriverError")
    ELSE Ret([rows |-> d])

\* the gate was asked and refused the statement
GateRejected(args, gate) ==
    /\ ~cypher_params(args).raised
    /\ "cypher" \in args.present
    /\ gate = "reject"

\* the body of execute_cypher (agent.py 360-370)
execute_cypher_body(args, gate, d) ==
    IF cypher_params(args).raised THEN Raise(cypher_params(args).exc)
    ELSE IF "cypher" \notin args.present THEN Raise("KeyError")
    ELSE IF client_execute_cypher(gate, d).raised
    THEN Raise(client_execute_cypher(gate, d).exc)
    ELSE Ret(TextPayload(JsonText("execute_cypher",
                [results |-> client_execute_cypher(gate, d).payload,
                 parameters |-> cypher_params(args).payload])))

\* node_id is read before the try block is entered
explore_nodes_lookup_outside_try(args, d) ==
    IF "node_id" \notin args.present THEN Escaped("KeyError")
    ELSE except_Exception(explore_nodes_body(args, d), "Error exploring nodes")

\* the six tools as the runtime calls them
tool_get_schema(g) == except_Exception(get_schema_body(g), "Error getting schema")
tool_explore_nodes(args, d) ==
    except_Exception(explore_nodes_body(args, d), "Error exploring nodes")
tool_search_nodes(args, d) ==
    except_Exception(search_nodes_body(args, d), "Error searching nodes")
tool_find_paths(args, d) ==
    except_Exception(find_paths_body(args, d), "Error finding paths")
tool_analyze_patterns(args, d, g) ==
    except_Exception(analyze_patterns_body(args, d, g), "Error analyzing patterns")
tool_execute_cypher(args, gate, d) ==
    except_ValueError_Exception(execute_cypher_body(args, gate, d))

\* the exception raised inside a tool body, "none" if it returned
FailureOf(r) == IF r.raised THEN r.exc ELSE "none"

InitTools ==
    /\ toolCall = [tool |-> "none"]
    /\ toolResult = [escaped |-> FALSE, payload |-> [content |-> <<>>]]

toolFrame == <<agentVars, threadVars, schemaOp, priorOnFailure, libVars>>

\* the runtime calls get_schema
call_get_schema(args, out) ==
    LET g == get_schema_effect(_cache, _cache_time, fetches, out)
    IN /\ Fetches(_cache, out) => fetches < MaxFetches
       /\ toolCall' = [tool |-> "get_schema", args |-> args,
                       failure |-> FailureOf(get_schema_body(g))]
       /\ toolResult' = tool_get_schema(g)
       /\ _cache' = g.cache
       /\ _cache_time' = g.time
       /\ fetches' = g.fetches
       /\ UNCHANGED toolFrame

\* the runtime calls explore_nodes
call_explore_nodes(args, d) ==
    /\ toolCall' = [tool |-> "explore_nodes", args |-> args, driver |-> d,
                    failure |-> FailureOf(explore_nodes_body(args, d))]
    /\ toolResult' = tool_explore_nodes(args, d)
    /\ UNCHANGED <<_cache, _cache_time, fetches, toolFrame>>

\* the runtime calls search_nodes
call_search_nodes(args, d) ==
    /\ toolCall' = [tool |-> "search_nodes", args |-> args, driver |-> d,
                    queries |-> search_nodes_queries(args, d),
                    failure |-> FailureOf(search_nodes_body(args, d))]
    /\ toolResult' = tool_search_nodes(args, d)
    /\ UNCHANGED <<_cache, _cache_time, fetches, toolFrame>>

\* the runtime calls find_paths
call_find_paths(args, d) ==
    /\ toolCall' = [tool |-> "find_paths", args |-> args, driver |-> d,
                    queries |-> find_paths_queries(args, d),
                    failure |-> FailureOf(find_paths_body(args, d))]
    /\ toolResult' = tool_find_paths(args, d)
    /\ UNCHANGED <<_cache, _cache_time, fetches, toolFrame>>

\* the sample branch is the only one that reaches SchemaService.get_schema
ReachesSchema(args, d) == d # "session_raises" /\ PatternType(args) = "sample"

\* the runtime calls analyze_patterns
call_analyze_patterns(args, d, out) ==
    LET g == get_schema_effect(_cache, _cache_time, fetches, out)
    IN /\ (ReachesSchema(args, d) /\ Fetches(_cache, out)) => fetches < MaxFetches
       /\ toolCall' = [tool |-> "analyze_patterns", args |-> args, driver |-> d,
                       queries |-> analyze_patterns_queries(args, d, g),
                       failure |-> FailureOf(analyze_patterns_body(args, d, g))]
       /\ toolResult' = tool_analyze_patterns(args, d, g)
       /\ IF ReachesSchema(args, d)
          THEN /\ _cache' = g.cache
               /\ _cache_time' = g.time
               /\ fetches' = g.fetches
          ELSE UNCHANGED <<_cache, _cache_time, fetches>>
       /\ UNCHANGED toolFrame

\* the runtime calls execute_cypher
call_execute_cypher(args, gate, d) ==
    /\ toolCall' = [tool |-> "execute_cypher", args |-> args, driver |-> d,
                    rejected |-> GateRejected(args, gate),
                    failure |-> FailureOf(execute_cypher_body(args, gate, d))]
    /\ toolResult' = tool_execute_cypher(args, gate, d)
    /\ UNCHANGED <<_cache, _cache_time, fetches, toolFrame>>

(***************************************************************************)
(* Specifications                                                          *)
(***************************************************************************)
InitOthers ==
    /\ InitSchema
    /\ InitThreads
    /\ InitTools
    /\ IdleLib

Init ==
    /\ InitAgent
    /\ conversation \in FewHistories
    /\ InitOthers

Next ==
    \/ \E ok \in BOOLEAN : aenter(ok)
    \/ \E raised \in BOOLEAN : aexit(raised)
    \/ \E m \in Messages : query_stream(m, conversation)
    \/ \E ok \in BOOLEAN : stream_send(ok)
    \/ \E m \in Messages, ok \in BOOLEAN : query(m, conversation, ok)
    \/ \E t \in MsgTypes, b \in Blocks : recv_block(t, b)
    \/ recv_no_content
    \/ recv_end
    \/ recv_fail

\* The agent session: connection scope, query and query_stream
Spec == Init /\ [][Next]_vars


\* The same session for every conversation history of at most MaxHist entries;
\* the upstream answers with an empty response.
ShapeNext ==
    \/ \E ok \in BOOLEAN : aenter(ok)
    \/ \E raised \in BOOLEAN : aexit(raised)
    \/ \E m \in Messages : query_stream(m, conversation)
    \/ \E ok \in BOOLEAN : stream_send(ok)
    \/ \E m \in Messages, ok \in BOOLEAN : query(m, conversation, ok)
    \/ recv_end
    \/ recv_fail

ShapeInit ==
    /\ InitAgent
    /\ conversation \in AllHistories
    /\ InitOthers

ShapeSpec == ShapeInit /\ [][ShapeNext]_vars


IdleInit ==
    /\ InitAgent
    /\ conversation = NoHistory
    /\ InitOthers

SchemaNext ==
    \/ \E out \in FetchOutcomes : refresh(out)
    \/ \E out \in FetchOutcomes : get_schema(out)

\* SchemaService used from one thread of control
SchemaSpec == IdleInit /\ [][SchemaNext]_vars

ThreadNext ==
    \E t \in Threads :
        \/ t_call_get_schema(t)
        \/ t_call_refresh(t)
        \/ t_check(t)
        \/ \E out \in FetchOutcomes : t_fetch(t, out)
        \/ t_store_cache(t)
        \/ t_store_time(t)
        \/ t_except_check(t)
        \/ t_except_store(t)
        \/ t_return(t)

\* SchemaService used from NThreads threads
ThreadSpec == IdleInit /\ [][ThreadNext]_vars

ToolNext ==
    \/ \E a \in GetSchemaArgs, out \in FetchOutcomes : call_get_schema(a, out)
    \/ \E a \in ExploreArgs, d \in DriverOutcomes : call_explore_nodes(a, d)
    \/ \E a \in SearchArgs, d \in DriverOutcomes : call_search_nodes(a, d)
    \/ \E a \in FindPathsArgs, d \in DriverOutcomes : call_find_paths(a, d)
    \/ \E a \in PatternArgs, d \in DriverOutcomes, out \in FetchOutcomes :
            call_analyze_patterns(a, d, out)
    \/ \E a \in CypherArgs, g \in GateOutcomes, d \in DriverOutcomes :
            call_execute_cypher(a, g, d)

\* the tools called one after another by the agent runtime
ToolSpec == IdleInit /\ [][ToolNext]_vars

GraphInit ==
    /\ InitAgent
    /\ conversation = NoHistory
    /\ InitSchema /\ InitThreads /\ InitTools
    /\ InitLib
    /\ graphIn \in Records \cup GraphDatas
    /\ props = <<>>
    /\ InitFlows

GraphNext ==
    \/ build_search_nodes
    \/ build_find_paths
    \/ build_graph_data_to_dict

\* the envelope builders applied to every driver result
GraphSpec == GraphInit /\ [][GraphNext]_vars

SlimInit ==
    /\ InitAgent
    /\ conversation = NoHistory
    /\ InitSchema /\ InitThreads /\ InitTools
    /\ InitLib
    /\ graphIn = NoRecord
    /\ props \in PropMaps
    /\ InitFlows

SlimNext ==
    \/ call_slim_properties
    \/ call_slim_again

\* slim_properties applied to every property mapping, and to its own result
SlimSpec == SlimInit /\ [][SlimNext]_vars

\* an agent built without overrides, an empty store, a server in either mode
FlowInit ==
    /\ InitAgent
    /\ overrides = [system_prompt |-> OverrideNone, enabled_tools |-> OverrideNone,
                    model |-> OverrideNone]
    /\ conversation = NoHistory
    /\ InitSchema /\ InitThreads /\ InitTools
    /\ InitLib
    /\ graphIn = NoRecord
    /\ props = <<>>
    /\ EmptyStore
    /\ sql_mode \in SqlModes

FlowNext ==
    \/ tick
    \/ \E b \in Bodies, fid \in FlowIds, db \in DbOutcomes :
            \E u \in Fallbacks(b.name) : flow_create(b, fid, u, db)
    \/ \E id \in FlowIds, db \in DbOutcomes : flow_get(id, db)
    \/ \E id \in FlowIds, b \in Bodies, db \in DbOutcomes :
            \E u \in Fallbacks(b.name) : flow_update(id, b, u, db)
    \/ \E id \in FlowIds, db \in DbOutcomes : flow_publish(id, db)
    \/ \E id \in FlowIds, db \in DbOutcomes : flow_unpublish(id, db)
    \/ \E id \in FlowIds, db \in DbOutcomes : flow_delete(id, db)
    \/ \E published_only \in BOOLEAN, db \in DbOutcomes : flow_list_all(published_only, db)
    \/ \E slug \in SlugsAsked, db \in DbOutcomes : flow_get_by_slug(slug, db)

\* FlowStore calls made one after another
FlowSpec == FlowInit /\ [][FlowNext]_vars


\* every text is given to the parser once
ParseInit ==
    /\ InitAgent
    /\ overrides = [system_prompt |-> OverrideNone, enabled_tools |-> OverrideNone,
                    model |-> OverrideNone]
    /\ conversation = NoHistory
    /\ InitSchema /\ InitThreads /\ InitTools
    /\ graphOut = NotBuilt /\ slim = NotCalled /\ reslim = NotCalled
    /\ graphIn = NoRecord
    /\ props = <<>>
    /\ InitFlows
    /\ InitGen
    /\ InitSummary
    /\ parseIn \in ParseInputs
    /\ parseOut = NotParsed

ParseNext == call_parse_questions_from_text

\* _parse_questions_from_text applied to every text
ParseSpec == ParseInit /\ [][ParseNext]_vars

SuggestNext ==
    \/ \E s \in SummaryOutcomes, k \in ApiKeys : gen_call(s, k)
    \/ \E f \in PostFailures : gen_post_fails(f)
    \/ \E data \in Envelopes : gen_post_answered(data)

\* generate_suggested_questions called again and again
SuggestSpec == IdleInit /\ [][SuggestNext]_vars

\* a pass of the retry loop that has begun comes to its end: client.post has a
\* timeout of 30 seconds and asyncio.sleep returns
SuggestLiveSpec ==
    /\ IdleInit
    /\ [][SuggestNext]_vars
    /\ WF_vars(\E f \in PostFailures : gen_post_fails(f))
    /\ WF_vars(\E data \in Envelopes : gen_post_answered(data))

SummaryNext == \E out \in SummaryFetches : get_schema_summary(out)

\* get_schema_summary called on every schema the database may hold
SummarySpec == IdleInit /\ [][SummaryNext]_vars

\* agents built with every combination of overrides
OptionsInit ==
    /\ overrides \in AllOverrides
    /\ InitSession
    /\ conversation = NoHistory
    /\ InitOthers

OptionsNext ==
    \/ \E ok \in BOOLEAN : aenter(ok)
    \/ \E raised \in BOOLEAN : aexit(raised)
    \/ \E m \in Messages : query_stream(m, conversation)

\* the session is opened and query_stream yields its first event
OptionsSpec == OptionsInit /\ [][OptionsNext]_vars
(***************************************************************************)
(* Claims about the agent session                                          *)
(***************************************************************************)

\* C1: whenever a query or query_stream call is made while the agent has no
\* active connection (never entered, connect failed, or already exited), the
\* call fails with RuntimeError, nothing has been passed to the client and no
\* event has been emitted.  (Fails: self.client stays set after a failed
\* connect and after __aexit__, so the guard lets the call through.)
C1_NoConnectionFailsFirst ==
    (mode # "none" /\ ~callActive) =>
        /\ pc = "raised"
        /\ error = "RuntimeError"
        /\ sent = <<>>
        /\ events = <<>>

\* C2: once the `async with` scope has been left, the client on which connect
\* was started has been disconnected exactly once and is not connected.
\* (Fails: when connect raises, __aexit__ never runs.)
C2_DisconnectedOnceAfterScope ==
    (scope = "outside" /\ connects > 0) =>
        /\ disconnects = 1
        /\ cstate # "connected"

BetweenTypes == {"text", "tool_use", "tool_result"}

\* agent_context first, then only text, tool_use and tool_result events
StreamPrefix(ev) ==
    /\ Len(ev) >= 1
    /\ ev[1].type = "agent_context"
    /\ \A i \in 2..Len(ev) : ev[i].type \in BetweenTypes

\* a prefix as above closed by one done event
StreamComplete(ev) ==
    /\ Len(ev) >= 2
    /\ ev[Len(ev)].type = "done"
    /\ StreamPrefix(SubSeq(ev, 1, Len(ev) - 1))

\* C3 as stated: every query_stream call on a connected agent that has ended
\* produced agent_context, then text/tool_use/tool_result events, then exactly
\* one done event.  (Fails for a call that ends by raising.)
C3_EveryStreamEndsWithDone ==
    (mode = "stream" /\ callActive /\ pc \in {"returned", "raised"}) =>
        StreamComplete(events)

\* C3 amended: on a connected agent, agent_context is the first event and is
\* emitted before the message is passed to the client; a call that returns has
\* produced agent_context, text/tool_use/tool_result events and one final done;
\* a call that has not returned, or that raised, has produced a prefix of such a
\* sequence without done.
C3_StreamShape ==
    (mode = "stream" /\ callActive) =>
        /\ pc = "ctx_yielded" => (sent = <<>> /\ Len(events) = 1)
        /\ sent # <<>> => (events # <<>> /\ events[1].type = "agent_context")
        /\ pc = "returned" => StreamComplete(events)
        /\ pc # "returned" => StreamPrefix(events)

C3_Witness ==
    /\ mode = "stream"
    /\ callActive
    /\ pc = "returned"
    /\ Len(events) = 4
    /\ events[2].type = "tool_use"
    /\ events[3].type = "tool_result"

\* the tool_use events of a stream, in order, as tool calls
RECURSIVE ToolUsesOf(_)
ToolUsesOf(ev) ==
    IF ev = <<>> THEN <<>>
    ELSE IF ev[Len(ev)].type = "tool_use"
    THEN Append(ToolUsesOf(SubSeq(ev, 1, Len(ev) - 1)),
                [name |-> ev[Len(ev)].name, input |-> ev[Len(ev)].input])
    ELSE ToolUsesOf(SubSeq(ev, 1, Len(ev) - 1))

\* C4: the tool_calls list of the done event equals, in order and with the same
\* name and input, the tool_use events emitted earlier in the stream.
C4_DoneCarriesToolUses ==
    (mode = "stream" /\ pc = "returned") =>
        /\ events[Len(events)].type = "done"
        /\ events[Len(events)].tool_calls = ToolUsesOf(events)

\* a finished stream with two tool_use events, one without a call identifier
C4_Witness ==
    /\ mode = "stream"
    /\ pc = "returned"
    /\ Len(events) = 4
    /\ events[2].type = "tool_use" /\ eventIds[2] = NoneId
    /\ events[3].type = "tool_use" /\ eventIds[3] # NoneId
    /\ events[2].name # events[3].name

\* the positions of the earlier tool_use events with the call identifier of event i
EarlierUses(i) ==
    {j \in 1..(i - 1) : events[j].type = "tool_use" /\ eventIds[j] = eventIds[i]}

\* C5: every tool_result event comes from a block with a call identifier and
\* carries the name of the (latest) tool_use event emitted earlier with that
\* identifier, or "unknown" when no earlier tool_use has it.
C5_ResultNamedByCallId ==
    mode = "stream" =>
        \A i \in 1..Len(events) :
            events[i].type = "tool_result" =>
                /\ eventIds[i] # NoneId
                /\ IF EarlierUses(i) = {}
                   THEN events[i].name = "unknown"
                   ELSE events[i].name =
                            events[CHOOSE j \in EarlierUses(i) :
                                       \A k \in EarlierUses(i) : k <= j].name

C5_Witness ==
    /\ mode = "stream"
    /\ Len(events) >= 3
    /\ events[2].type = "tool_use"
    /\ events[3].type = "tool_result"
    /\ eventIds[2] = eventIds[3]
    /\ events[3].name = events[2].name

\* C6: no query_stream call fails while a tool-result payload is decoded: a
\* call that raised was refused by the connection guard or failed in the
\* client.  (Fails: only JSONDecodeError is caught around json.loads.)
C6_DecodingNeverFailsStream ==
    (mode = "stream" /\ pc = "raised") => error \in {"RuntimeError", "ClientError"}

RoleLine == [user |-> "USER", assistant |-> "ASSISTANT"]

\* C7: the message passed to the client is the message itself when the history
\* is None or empty, and otherwise holds the last 6 history entries at most, in
\* their order, as ROLE: content lines, followed by the current message.
C7_LastSixMessages ==
    sent # <<>> =>
        IF ~conversation.given \/ Len(conversation.msgs) = 0
        THEN sent[1] = [kind |-> "plain", text |-> argMessage]
        ELSE LET h == conversation.msgs
                 n == IF Len(h) < 6 THEN Len(h) ELSE 6
             IN /\ sent[1].kind = "with_history"
                /\ sent[1].current = argMessage
                /\ Len(sent[1].lines) = n
                /\ \A k \in 1..n :
                       sent[1].lines[k] =
                           <<RoleLine[h[Len(h) - n + k].role], h[Len(h) - n + k].content>>

\* a call with more than 6 history entries whose oldest entry differs from the
\* oldest entry kept
C7_Witness ==
    /\ sent # <<>>
    /\ conversation.given
    /\ Len(conversation.msgs) > 6
    /\ conversation.msgs[1] # conversation.msgs[Len(conversation.msgs) - 5]
(***************************************************************************)
(* Claims about the schema cache                                           *)
(***************************************************************************)

\* C8: a refresh that fails raises RuntimeError and leaves the timestamp as it
\* was and, when a schema was cached, the cache as it was; get_schema calls
\* after it return that prior schema.
C8_FailedRefreshKeepsCache ==
    /\ (schemaOp.op = "refresh" /\ schemaOp.raised # "none") =>
          /\ schemaOp.raised = "RuntimeError"
          /\ _cache_time = schemaOp.beforeTime
          /\ schemaOp.before.set => _cache = schemaOp.before
    /\ (schemaOp.op = "get_schema" /\ priorOnFailure.given) =>
          /\ schemaOp.raised = "none"
          /\ schemaOp.returned = priorOnFailure.doc

\* a get_schema after a failed refresh that found a fetched, non-empty schema
C8_Witness ==
    /\ schemaOp.op = "get_schema"
    /\ priorOnFailure.given
    /\ Truthy(priorOnFailure.doc)
    /\ schemaOp.returned = priorOnFailure.doc
    /\ _cache_time.set

\* C9: every thread that reads the cache sees a cache value and a cache
\* timestamp that belong to the same fetch.  (Fails: refresh stores the two
\* attributes in two steps, without a lock.)
C9_ReaderSeesOneFetch ==
    \A t \in Threads :
        (observed[t].given /\ observed[t].cacheSet) =>
            observed[t].cacheFetch = observed[t].timeFetch

(***************************************************************************)
(* Claims about the tools                                                  *)
(***************************************************************************)
IsTextItemList(content) ==
    /\ Len(content) = 1
    /\ content[1].type = "text"

\* the call was refused for an unknown pattern_type
UnknownPattern ==
    /\ toolCall.tool = "analyze_patterns"
    /\ toolCall.failure = "none"
    /\ "pattern_type" \in toolCall.args.present
    /\ toolCall.args.pattern_type \notin {"overview", "degree", "sample"}

\* C10: no tool lets an exception escape; every tool call returns a payload
\* whose content is one text item; the payload carries is_error = true when
\* something failed inside the tool (a missing argument, the driver, the schema
\* service, a refused query or pattern_type) and no is_error otherwise.
C10_ToolsReturnPayloads ==
    toolCall.tool # "none" =>
        /\ ~toolResult.escaped
        /\ IsTextItemList(toolResult.payload.content)
        /\ IF toolCall.failure # "none" \/ UnknownPattern
           THEN /\ "is_error" \in DOMAIN toolResult.payload
                /\ toolResult.payload.is_error = TRUE
           ELSE "is_error" \notin DOMAIN toolResult.payload

\* a call without its required argument that came back as an error payload
C10_Witness ==
    /\ toolCall.tool = "explore_nodes"
    /\ "node_id" \notin toolCall.args.present
    /\ toolCall.failure = "KeyError"
    /\ ~toolResult.escaped
    /\ "is_error" \in DOMAIN toolResult.payload

(***************************************************************************)
(* Claims about the envelopes and slim_properties                          *)
(***************************************************************************)
EnvelopeClosed(env) ==
    \A i \in 1..Len(env.relationships) :
        /\ env.relationships[i].startNodeId \in IdsOf(env.nodes)
        /\ env.relationships[i].endNodeId \in IdsOf(env.nodes)

\* C11: in every envelope built by search_nodes, find_paths and
\* graph_data_to_dict, both endpoints of every relationship are ids of nodes of
\* the same envelope, whatever the driver returned.
C11_NoDanglingRelationship ==
    graphOut.fn # "none" => EnvelopeClosed(graphOut.envelope)

\* the driver returned a relationship to a node it did not return, next to one
\* between returned nodes, and the envelope kept a relationship
HasDanglingInput ==
    /\ graphIn.kind = "record"
    /\ \E i \in 1..Len(graphIn.rels) :
          graphIn.rels[i].truthy /\ graphIn.rels[i].end \notin NodeIds
C11_Witness ==
    /\ graphOut.fn = "search_nodes"
    /\ HasDanglingInput
    /\ Len(graphOut.envelope.relationships) = 1
    /\ Len(graphOut.envelope.nodes) = 2

\* what the claim says one value becomes
SlimmedAsClaimed(before, after) ==
    IF before.t = "str" /\ Len(before.s) > 200
    THEN /\ after.t = "str"
         /\ Len(after.s) = 203
         /\ \A i \in 1..200 : after.s[i] = before.s[i]
         /\ \A i \in 201..203 : after.s[i] = "."
    ELSE IF before.t = "list" /\ Len(before.items) > 10
    THEN /\ after.t = "list"
         /\ Len(after.items) = 10
         /\ \A i \in 1..10 : after.items[i] = before.items[i]
    ELSE after = before

SlimBounded(m) ==
    \A key \in DOMAIN m :
        /\ m[key].t = "str" => Len(m[key].s) <= 203
        /\ m[key].t = "list" => Len(m[key].items) <= 10

SlimResultAsClaimed ==
    slim.called =>
        /\ DOMAIN slim.value =
              DOMAIN props \ {"fastrp_embedding", "reasoning_embedding", "embedding"}
        /\ SlimBounded(slim.value)
        /\ \A key \in DOMAIN slim.value : SlimmedAsClaimed(props[key], slim.value[key])

\* C12: slim_properties returns a mapping without the three embedding keys, whose
\* strings have at most 203 characters and whose lists have at most 10 elements;
\* a longer string becomes its first 200 characters and "...", a longer list its
\* first 10 elements, every other value is kept; the input mapping is not changed.
C12_SlimBoundsValues ==
    /\ []SlimResultAsClaimed
    /\ [][props' = props]_vars

\* a mapping with an embedding key and a string over the limit has been slimmed
C12_Witness ==
    /\ slim.called
    /\ "embedding" \in DOMAIN props
    /\ "name" \in DOMAIN props
    /\ props["name"].t = "str"
    /\ Len(props["name"].s) = 201
    /\ Len(slim.value["name"].s) = 203

\* C13: slim_properties is idempotent: applied to its own result it returns that
\* result, also when the result holds a 203-character truncated string.
C13_SlimIdempotent ==
    reslim.called => reslim.value = slim.value

\* the second call worked on a truncated string of 203 characters and on a
\* trimmed list
C13_Witness ==
    /\ reslim.called
    /\ \E key \in DOMAIN slim.value :
          /\ slim.value[key].t = "str"
          /\ Len(slim.value[key].s) = 203
          /\ props[key] # slim.value[key]
    /\ \E key \in DOMAIN slim.value :
          /\ slim.value[key].t = "list"
          /\ props[key] # slim.value[key]

(***************************************************************************)
(* Claims about single tools                                               *)
(***************************************************************************)
\* the text item of the payload the last tool call returned
ResultText == toolResult.payload.content[1].text
Flagged == "is_error" \in DOMAIN toolResult.payload /\ toolResult.payload.is_error = TRUE
NoPathCase == toolCall.driver \in {"no_record", "no_nodes"}

\* C14: when the query of find_paths yields no record or a record without
\* nodes, find_paths returns an unflagged payload with paths_found = 0, an
\* envelope with no nodes and no relationships and the message "No path found.";
\* any other result it returns has paths_found = 1.
C14_NoPathIsNotAnError ==
    toolCall.tool = "find_paths" =>
        /\ (toolCall.queries # <<>> /\ NoPathCase) => toolCall.failure = "none"
        /\ toolCall.failure = "none" =>
              /\ ~toolResult.escaped
              /\ ~Flagged
              /\ ResultText.kind = "json"
              /\ ResultText.response.paths_found \in {0, 1}
              /\ IF NoPathCase
                 THEN /\ ResultText.response.paths_found = 0
                      /\ ResultText.response.graph_data.nodes = <<>>
                      /\ ResultText.response.graph_data.relationships = <<>>
                      /\ ResultText.response.message = "No path found."
                 ELSE ResultText.response.paths_found = 1

\* the query came back with a record whose node list is empty
C14_Witness ==
    /\ toolCall.tool = "find_paths"
    /\ toolCall.driver = "no_nodes"
    /\ toolCall.queries # <<>>
    /\ ~toolResult.escaped
    /\ ResultText.kind = "json"
    /\ ResultText.response.paths_found = 0

\* C15: the depth bound find_paths gives the query is 5 when max_depth is not
\* passed, and min(max_depth, 10), so never more than 10, when it is.
C15_DepthBound ==
    (toolCall.tool = "find_paths" /\ toolCall.queries # <<>>) =>
        /\ Len(toolCall.queries) = 1
        /\ toolCall.queries[1].max_depth <= 10
        /\ IF "max_depth" \in toolCall.args.present
           THEN toolCall.queries[1].max_depth =
                    (IF toolCall.args.max_depth.n < 10 THEN toolCall.args.max_depth.n ELSE 10)
           ELSE toolCall.queries[1].max_depth = 5

\* a call asking for depth 11 issued the query with depth 10
C15_Witness ==
    /\ toolCall.tool = "find_paths"
    /\ "max_depth" \in toolCall.args.present
    /\ toolCall.args.max_depth = IntArg(11)
    /\ toolCall.queries # <<>>
    /\ toolCall.queries[1].max_depth = 10

\* C16: analyze_patterns with a pattern_type other than overview, degree and
\* sample returns a flagged payload whose text holds "Unknown pattern_type" and
\* issues no query; without pattern_type it does what it does for overview.
\* (Fails: the session is opened before pattern_type is looked at.)
C16_UnknownPatternReported ==
    toolCall.tool = "analyze_patterns" =>
        /\ ("pattern_type" \in toolCall.args.present
                /\ toolCall.args.pattern_type \notin {"overview", "degree", "sample"}) =>
              /\ ~toolResult.escaped
              /\ Flagged
              /\ toolCall.queries = <<>>
              /\ ResultText.kind = "json"
              /\ ResultText.response.error = "Unknown pattern_type"
        /\ ("pattern_type" \notin toolCall.args.present) =>
              toolResult = tool_analyze_patterns(
                               [present |-> {"pattern_type"}, pattern_type |-> "overview"],
                               toolCall.driver, [raised |-> "none", value |-> EmptyDict])

\* C17: execute_cypher reports "Query not allowed" exactly when the read-only
\* gate refused the statement, and "Error executing query" for every other
\* failure.
C17_RejectionNamed ==
    toolCall.tool = "execute_cypher" =>
        /\ ~toolResult.escaped
        /\ toolCall.rejected <=>
              (Flagged /\ ResultText.kind = "message"
                       /\ ResultText.prefix = "Query not allowed")
        /\ (toolCall.failure # "none" /\ ~toolCall.rejected) =>
              (Flagged /\ ResultText.kind = "message"
                       /\ ResultText.prefix = "Error executing query")

\* the statement was refused in a call whose parameters list dict() turns down
\* with ValueError
C17_Witness ==
    /\ toolCall.tool = "execute_cypher"
    /\ toolCall.rejected
    /\ "parameters" \in toolCall.args.present
    /\ toolCall.args.parameters = [t |-> "list", dict |-> "ValueError"]
    /\ Flagged
    /\ ResultText.prefix = "Query not allowed"

(***************************************************************************)
(* Claims about the flow store                                             *)
(***************************************************************************)
SlugFollowsName(row) ==
    NormalizedName(row.content.name) # <<>> =>
        row.content.slug = NormalizedName(row.content.name)

\* C18: update followed by get of the same id returns the body's name,
\* graph_source_id, system_prompt, enabled_tools and model_id and the slug made
\* from the new name; every stored flow whose name normalizes to a non-empty
\* slug has that slug.  (Fails: a graph_source_id or model_id wider than its
\* column is refused or cut.)
C18_UpdateThenGet ==
    /\ (flowOp.op = "get" /\ flowOp.afterUpdate) =>
          /\ flowOp.returned.name = flowOp.body.name
          /\ flowOp.returned.graph_source_id = flowOp.body.graph_source_id
          /\ flowOp.returned.system_prompt = flowOp.body.system_prompt
          /\ flowOp.returned.enabled_tools = flowOp.body.enabled_tools
          /\ flowOp.returned.model_id = flowOp.body.model_id
          /\ flowOp.returned.slug = flowOp.slug
    /\ \A id \in DOMAIN flows : SlugFollowsName(flows[id])

UpdatedAtNeverDecreases ==
    \A id \in DOMAIN flows \cap DOMAIN flows' :
        flows'[id].updated_at >= flows[id].updated_at

RoundTripDone == flowOp.op = "unpublish" /\ flowOp.afterPublish

\* C19 as stated: publish followed by unpublish leaves published at the value
\* it had before the publish, and updated_at never decreases.
C19_RoundTripRestores ==
    RoundTripDone => flows[flowOp.id].published = flowOp.original

\* C19, amended: publish followed by unpublish leaves published = false, the
\* value before the publish only if the flow was not published then; updated_at
\* does not decrease across publish, unpublish and update.
C19_PublishUnpublish ==
    /\ [](RoundTripDone =>
            /\ flows[flowOp.id].published = FALSE
            /\ (flowOp.original = FALSE => flows[flowOp.id].published = flowOp.original))
    /\ [][UpdatedAtNeverDecreases]_vars

\* a published flow was published again and then unpublished, a second later
\* than its last change
C19_Witness ==
    /\ RoundTripDone
    /\ flowOp.original = TRUE
    /\ flows[flowOp.id].published = FALSE
    /\ flows[flowOp.id].updated_at > flows[flowOp.id].created_at

FrameStep ==
    flowOp'.op # "none" =>
        /\ \A id \in DOMAIN flows :
              id # flowOp'.id => (id \in DOMAIN flows' /\ flows'[id] = flows[id])
        /\ \A id \in DOMAIN flows' \ DOMAIN flows :
              /\ flowOp'.op = "create"
              /\ id = flowOp'.id
              /\ flows'[id].published = FALSE
              /\ flows'[id].created_at = flows'[id].updated_at
        /\ \A id \in DOMAIN flows \ DOMAIN flows' : flowOp'.op = "delete"
        /\ \A id \in DOMAIN flows \cap DOMAIN flows' :
              /\ flowOp'.op = "update" =>
                    /\ flows'[id].published = flows[id].published
                    /\ flows'[id].created_at = flows[id].created_at
              /\ flowOp'.op \in {"publish", "unpublish"} =>
                    /\ flows'[id].content = flows[id].content
                    /\ flows'[id].created_at = flows[id].created_at
              /\ flowOp'.op \in {"get", "create"} => flows'[id] = flows[id]

\* C20: update leaves published, id and created_at of the flow as they were;
\* publish and unpublish change only published and updated_at; create stores
\* published = false and created_at = updated_at; no call changes a flow other
\* than the one it names.
C20_OperationsChangeWhatTheyName ==
    [][FrameStep]_vars

\* a published flow has been updated, a second after its creation, while
\* another flow is stored
C20_Witness ==
    /\ flowOp.op = "update"
    /\ flowOp.existed
    /\ flowOp.raised = "none"
    /\ Cardinality(DOMAIN flows) = 2
    /\ flows[flowOp.id].published
    /\ flows[flowOp.id].updated_at > flows[flowOp.id].created_at


(***************************************************************************)
(* Claims about listing and about missing flows                            *)
(***************************************************************************)
Listed == flowOp.op = "list_all" /\ flowOp.raised = "none"

\* the ids a list is to hold
Wanted ==
    IF flowOp.published_only THEN { id \in DOMAIN flows : flows[id].published }
    ELSE DOMAIN flows

\* C21: list_all() returns every stored flow exactly once and
\* list_all(published_only=True) exactly the published flows, both ordered by
\* updated_at from newest to oldest; a deleted flow is not in the list.
C21_ListAll ==
    Listed =>
        LET r == flowOp.returned
        IN /\ { r[i].id : i \in 1..Len(r) } = Wanted
           /\ Len(r) = Cardinality(Wanted)
           /\ \A i \in 1..Len(r) : r[i] = row_to_response(r[i].id, flows[r[i].id])
           /\ \A i, j \in 1..Len(r) : i < j => r[i].updated_at.iso >= r[j].updated_at.iso

\* two flows changed in different seconds are listed, the newer one first
C21_Witness ==
    /\ Listed
    /\ ~flowOp.published_only
    /\ Len(flowOp.returned) = 2
    /\ flowOp.returned[1].updated_at.iso > flowOp.returned[2].updated_at.iso

\* C22: get, update, publish and unpublish return None exactly when no flow
\* with the id is stored, also when the call changes no column value;
\* get_by_slug returns None exactly when no stored flow has the slug; delete
\* returns true exactly when the flow was stored, and removes it.  (Fails:
\* update, publish and unpublish return None for a stored flow when the
\* statement changes no value.)
C22_NoneOnlyWhenMissing ==
    /\ (flowOp.op = "get" /\ flowOp.raised = "none") =>
          (flowOp.returned = NoneResponse <=> flowOp.id \notin DOMAIN flows)
    /\ (flowOp.op \in {"update", "publish", "unpublish"} /\ flowOp.raised = "none") =>
          (flowOp.returned = NoneResponse <=> ~flowOp.existed)
    /\ (flowOp.op = "get_by_slug" /\ flowOp.raised = "none") =>
          (flowOp.returned = NoneResponse <=>
              \A id \in DOMAIN flows : flows[id].content.slug # flowOp.slug)
    /\ (flowOp.op = "delete" /\ flowOp.raised = "none") =>
          flowOp.id \notin DOMAIN flows

(***************************************************************************)
(* Claims about the suggested questions                                    *)
(***************************************************************************)
GenReturned == genPc = "returned"

\* what the call met that is not a usable answer
GenFailures ==
    {"schema fetch failed", "schema unavailable", "no api key", "ConnectError",
     "ConnectTimeout", "HTTPStatusError", "JSONDecodeError", "ReadTimeout",
     "AttributeError", "empty text", "unparseable"}

\* C23: generate_suggested_questions never raises; for every failure it returns
\* the default questions, and for a failed or unavailable schema and a missing
\* API key it does so without an HTTP call.
C23_NeverRaises ==
    /\ genPc # "raised"
    /\ (GenReturned /\ genCase \in GenFailures) =>
          /\ genResult = TheDefaults
          /\ Deref(genResult, DEFAULT_QUESTIONS) = DefaultList
    /\ (GenReturned /\ genCase \in {"schema fetch failed", "schema unavailable", "no api key"}) =>
          posts = 0
    /\ GenReturned => genCase \in GenFailures \cup {"questions"}

\* the body of the answer was no dict: the call has returned the defaults
C23_Witness ==
    /\ GenReturned
    /\ genCase = "AttributeError"
    /\ posts = 1
    /\ genResult = TheDefaults

\* the waits after n failed attempts
WaitsAfter(n) == [i \in 1..n |-> i]

RetriesAsClaimed ==
    /\ posts <= 3
    /\ genPc = "posting" =>
          /\ posts < 3
          /\ sleeps = WaitsAfter(posts)
          /\ posts > 0 => genCase \in ConnectFailures
    /\ (GenReturned /\ posts > 0) =>
          /\ sleeps = WaitsAfter(posts - 1)
          /\ posts < 3 => genCase \notin ConnectFailures

\* C24: at most 3 HTTP attempts; a connection failure on attempt 1 is followed
\* by a wait of 1s and a retry, on attempt 2 by a wait of 2s and a retry, on
\* attempt 3 by the defaults without a wait; every other outcome ends the call
\* on that attempt; the call terminates.
C24_BoundedRetries ==
    /\ []RetriesAsClaimed
    /\ (genPc = "posting") ~> (genPc = "returned")

\* the connection failed three times: two waits, then the defaults
C24_Witness ==
    /\ GenReturned
    /\ posts = 3
    /\ sleeps = <<1, 2>>
    /\ genCase \in ConnectFailures
    /\ genResult = TheDefaults

\* [str(q)[:80] for q in arr[:3]], None for no entries
Expected(arr) ==
    IF arr = <<>> THEN NoQuestions
    ELSE Questions([i \in 1..Min(Len(arr), 3) |-> Prefix(str_of(arr[i]), 80)])

\* the first of the three sources that yields questions
FirstSource(text) ==
    LET whole == TryLoads(StripWs(text))
        code == IF CodeSearch(text, 1).found THEN TryLoads(CodeSearch(text, 1).group)
                ELSE NoQuestions
        found == IF ArraySearch(text).found THEN TryLoads(ArraySearch(text).group)
                 ELSE NoQuestions
    IN IF whole # NoQuestions THEN whole ELSE IF code # NoQuestions THEN code ELSE found

Parsed == parseOut # NotParsed

\* C25: the whole stripped text, then an array in a fenced code block, then the
\* first bracketed array, the first that yields a non-empty JSON array; a bare
\* array and the same array in a fenced code block yield the same list; empty,
\* blank and malformed text and an empty array yield None.  (Fails: an array
\* whose string holds "]" before a code fence is cut short in the code block.)
C25_ParseSources ==
    Parsed =>
        /\ parseOut = FirstSource(parseIn.text)
        /\ parseIn.wrap \in {"bare", "spaced"} => parseOut = Expected(parseIn.array)
        /\ parseIn.wrap \in {"fenced", "fenced_json"} => parseOut = Expected(parseIn.array)
        /\ parseIn.wrap = "none" => parseOut = NoQuestions

\* the entries of the array the answer holds, when the answer is a bare array
AnsweredArray == loads(StripWs(genText)).val.items
BareAnswer ==
    /\ GenReturned
    /\ genCase = "questions"
    /\ loads(StripWs(genText)).ok
    /\ loads(StripWs(genText)).val.t = "list"

ThreeShortQuestions ==
    GenReturned =>
        LET qs == Deref(genResult, DEFAULT_QUESTIONS)
        IN /\ Len(qs) = 3
           /\ \A i \in 1..3 : Len(qs[i]) <= 80
           /\ BareAnswer =>
                 \A i \in 1..3 :
                    qs[i] = IF i <= Len(AnsweredArray)
                            THEN Prefix(str_of(AnsweredArray[i]), 80)
                            ELSE DefaultList[i]

\* C26: every list returned has exactly 3 strings of at most 80 characters;
\* a longer array is cut to its first 3 entries, each entry to its first 80
\* characters, an array of k < 3 entries is followed by the defaults at
\* positions k..2; the default list is never modified.
C26_ThreeQuestions ==
    /\ []ThreeShortQuestions
    /\ [][DEFAULT_QUESTIONS' = DEFAULT_QUESTIONS]_vars

\* an array of a short and a long question: the long one is cut, the third
\* default follows
C26_Witness ==
    /\ BareAnswer
    /\ Len(AnsweredArray) = 2
    /\ Len(str_of(AnsweredArray[2])) > 80
    /\ Deref(genResult, DEFAULT_QUESTIONS) =
          <<str_of(AnsweredArray[1]), Prefix(str_of(AnsweredArray[2]), 80), DefaultList[3]>>
    /\ DEFAULT_QUESTIONS = DefaultList

(***************************************************************************)
(* Claims about the schema summary                                         *)
(***************************************************************************)
Summarised == summaryOut.called /\ summaryOut.raised = "none"

\* the field is absent or empty
NoField(doc, key) == key \notin doc.present \/ doc[key] = <<>>

SectionFields == <<"node_labels", "relationship_types", "relationship_patterns", "property_keys">>
SectionHeadings ==
    <<"## Node Labels (with counts)", "## Relationship Types (with counts)",
      "## Relationship Patterns (from -[type]-> to)",
      "## Property Keys (available on nodes/relationships)">>

NoSections(doc) == \A i \in 1..4 : NoField(doc, SectionFields[i])

\* the headings of a report, in the order they stand in it
HeadingsOf(lines) == SelectSeq(lines, LAMBDA l : l.line = "heading")

\* C27: the summary is the "Schema not available..." text exactly when the
\* schema document is empty, "Empty schema." exactly when the document is not
\* empty but node_labels, relationship_types, relationship_patterns and
\* property_keys are all absent or empty, and otherwise a report with at least
\* one section.
C27_TwoEmptyStates ==
    Summarised =>
        LET doc == summaryOut.schema
            out == summaryOut.returned
        IN /\ (out = NotAvailable) <=> (doc.present = {})
           /\ (out = EmptySchemaText) <=> (doc.present # {} /\ NoSections(doc))
           /\ (doc.present # {} /\ ~NoSections(doc)) =>
                 (out.t = "report" /\ Len(HeadingsOf(out.lines)) >= 1)
           /\ NotAvailable # EmptySchemaText

\* a schema that holds node_counts only is summarised as "Empty schema."
C27_Witness ==
    /\ Summarised
    /\ summaryOut.schema.present = {"node_counts"}
    /\ summaryOut.schema.node_counts # {}
    /\ summaryOut.returned = EmptySchemaText

\* the headings a schema is to be reported with
HeadingsFor(doc) ==
    LET wanted == { i \in 1..4 : ~NoField(doc, SectionFields[i]) }
    IN [k \in 1..Cardinality(wanted) |->
           SectionHeadings[CHOOSE i \in wanted : Cardinality({ j \in wanted : j < i }) = k - 1]]

ReportAsClaimed ==
    (Summarised /\ summaryOut.returned.t = "report") =>
        LET doc == summaryOut.schema
            lines == summaryOut.returned.lines
            patternLines == SelectSeq(lines, LAMBDA l : l.line = "pattern")
            keysLines == SelectSeq(lines, LAMBDA l : l.line = "keys")
            labelLines == SelectSeq(lines, LAMBDA l : l.line = "label")
        IN /\ [i \in 1..Len(HeadingsOf(lines)) |-> HeadingsOf(lines)[i].s] = HeadingsFor(doc)
           /\ ~NoField(doc, "relationship_patterns") =>
                 /\ Len(patternLines) = Min(Len(doc.relationship_patterns), 50)
                 /\ \A i \in 1..Len(patternLines) :
                       patternLines[i] = PatternLine(doc.relationship_patterns[i])
           /\ NoField(doc, "relationship_patterns") => patternLines = <<>>
           /\ ~NoField(doc, "property_keys") =>
                 /\ Len(keysLines) = 1
                 /\ keysLines[1].keys =
                       SubSeq(doc.property_keys, 1, Min(Len(doc.property_keys), 30))
                 /\ keysLines[1].ellipsis <=> Len(doc.property_keys) > 30
           /\ doc.present = {"node_labels", "node_counts"} =>
                 /\ Len(lines) = 1 + Len(doc.node_labels)
                 /\ lines[1] = Heading(SectionHeadings[1])
                 /\ \A i \in 1..Len(doc.node_labels) :
                       /\ lines[i + 1].line = "label"
                       /\ lines[i + 1].label = doc.node_labels[i]
                       /\ lines[i + 1].count = CountOf(doc.node_counts, doc.node_labels[i])

\* C28: a section is in the report exactly when its field is non-empty, the
\* sections stand in the order labels, relationship types, patterns, property
\* keys; at most the first 50 patterns and the first 30 keys are listed, the
\* keys followed by "..." exactly when there are more than 30; a schema with
\* node_labels and node_counts only yields the labels section alone, one
\* "<label>: <count> nodes" line per label.
C28_ReportSections == ReportAsClaimed

\* 51 patterns and 31 keys: 50 pattern lines, 30 keys and the ellipsis
C28_Witness ==
    /\ Summarised
    /\ summaryOut.returned.t = "report"
    /\ summaryOut.schema.present = {"node_labels", "relationship_patterns", "property_keys"}
    /\ Len(summaryOut.schema.relationship_patterns) = 51
    /\ Len(summaryOut.schema.property_keys) = 31
    /\ Len(summaryOut.schema.node_labels) = 2
    /\ Len(summaryOut.returned.lines) = 3 + 2 + 50 + 3

(***************************************************************************)
(* Claim about the lazily filled schema cache                              *)
(***************************************************************************)
\* get_schema was called when the cache had been set
CachedRead == schemaOp.op = "get_schema" /\ schemaOp.before.set

\* C29: get_schema contacts the graph database only while the cache has never
\* been set; after the first get_schema or refresh attempt, successful or
\* failed, every get_schema returns the cached value without contacting the
\* database, and only refresh replaces it; after a failed first fetch
\* get_schema returns the empty schema and does not retry.
C29_LazyCache ==
    /\ schemaOp.op = "get_schema" => (schemaOp.contacted <=> ~schemaOp.before.set)
    /\ schemaOp.op # "none" => _cache.set
    /\ CachedRead =>
          /\ schemaOp.raised = "none"
          /\ schemaOp.returned = schemaOp.before.doc
          /\ _cache = schemaOp.before
          /\ _cache_time = schemaOp.beforeTime
    /\ (CachedRead /\ schemaOp.before.fetch = 0) =>
          /\ schemaOp.returned = EmptyDict
          /\ ~schemaOp.contacted
          /\ ~_cache_time.set

\* the first fetch failed; a later get_schema returned {} without a fetch
C29_Witness ==
    /\ CachedRead
    /\ schemaOp.before = Cached(EmptyDict, 0)
    /\ schemaOp.returned = EmptyDict
    /\ ~schemaOp.contacted
    /\ fetches = 0

(***************************************************************************)
(* Claim about the agent_context event                                     *)
(***************************************************************************)
ContextYielded == events # <<>> /\ events[1].type = "agent_context"

\* the names in a list
NamesIn(seq) == { seq[i] : i \in 1..Len(seq) }

\* C30: for every combination of overrides the agent_context event reports
\* what the session runs with: available_tools names exactly the tools of
\* allowed_tools, all six when the override is None or empty and only known
\* tools otherwise, and system_prompt is the prompt of the agent options.
\* (Fails: the event passes unknown tool names on and strips the prompt.)
C30_ContextMatchesOptions ==
    ContextYielded =>
        LET ctx == events[1].context
        IN /\ { McpName(t) : t \in NamesIn(ctx.available_tools) } = NamesIn(options.allowed_tools)
           /\ \A t \in NamesIn(ctx.available_tools) : KnownTool(t)
           /\ (~overrides.enabled_tools.given \/ overrides.enabled_tools.v = <<>>) =>
                 ctx.available_tools = AVAILABLE_TOOLS
           /\ ctx.system_prompt = options.system_prompt
====
